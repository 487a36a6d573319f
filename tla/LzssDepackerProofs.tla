-------------------------- MODULE LzssDepackerProofs --------------------------
(***************************************************************************)
(* Proofs about LzssDepacker: for every parse of the intro and all sizes,  *)
(* RoomAbove is enough for the stream to survive until it has been read.   *)
(***************************************************************************)
EXTENDS LzssDepacker, SequenceTheorems, TLAPS

Token == [offset : Nat, length : Nat, start : Nat, to : Nat]

(* Where the token that follows the first k ones goes in the output.       *)
OutputPosition(k) ==
  IF k < Len(tokens) THEN tokens[k + 1].to ELSE Len(data)

StreamEnd == size - padding

(* Tokens are as long in the output as in the stream, flag bytes apart, of *)
(* which the first one comes before everything else.                       *)
RoomInv ==
  \A k \in 0..Len(tokens) :
    StreamEnd - StreamPosition(k)
      <= Len(data) - OutputPosition(k) + flags - (IF k = 0 THEN 0 ELSE 1)

(* Tokens follow each other in stream and output.                          *)
ParseInv ==
  /\ StreamPosition(0) = HeaderSize
  /\ OutputPosition(0) = 0
  /\ Len(tokens) > 0 => flags >= 1
  /\ \A k \in 1..Len(tokens) :
       tokens[k].length >= 1 /\ (tokens[k].offset = 0 => tokens[k].length = 1)
  /\ \A k \in 0..(Len(tokens) - 1) :
       /\ StreamPosition(k) <= StreamPosition(k + 1)
       /\ OutputPosition(k) + tokens[k + 1].length = OutputPosition(k + 1)
  /\ \A k \in 0..Len(tokens) :
       /\ StreamPosition(k) <= StreamEnd
       /\ OutputPosition(k) <= Len(data)

(* References mean the bytes of the intro, once the stream is verified.    *)
ReferencesInv ==
  correct =>
    \A k \in 1..Len(tokens) :
      tokens[k].offset > 0 =>
        /\ tokens[k].offset <= tokens[k].to
        /\ \A i \in 1..tokens[k].length :
             /\ tokens[k].to + i <= Len(data)
             /\ data[tokens[k].to + i] = data[tokens[k].to + i - tokens[k].offset]

Booting == pc \in {"code_start", "lzss_decode", "lz77_uncomp", "intro"}

PackInv ==
  /\ pc = "lzss_compress" => padding = 0
  /\ pc \notin {"lzss_compress", "thrown"} => correct
  /\ Booting => buffer = EwramEnd - size

(* LZ77UnComp's registers agree on a token until it derails, which needs   *)
(* damage to its source.                                                   *)
RegistersInv ==
  /\ r1 >= loadAddress
  /\ tok <= Len(tokens) + 1
  /\ copy > 0 => tok >= 2 /\ copy <= tokens[tok - 1].length /\ ~derailed
  /\ ~derailed =>
       /\ r0 = buffer + StreamPosition(tok - 1)
       /\ r1 + copy = loadAddress + OutputPosition(tok - 1)
       /\ left = Len(data) - (r1 - loadAddress)
  /\ pc = "intro" => left = 0

Intact == ~derailed /\ Holds(r0, size - (r0 - buffer), r0 - buffer)

BootInv ==
  /\ pc \in {"lzss_compress", "huffman_compress", "assemble_cartridge",
             "code_start", "lzss_decode"} => tok = 1 /\ copy = 0 /\ ~derailed
  /\ pc = "lzss_decode" /\ size <= EwramSize => Holds(buffer, size, 0)
  /\ pc \in {"lz77_uncomp", "intro"} => RegistersInv /\ (RoomAbove => Intact)

(* What has been unpacked is the intro's beginning.                        *)
OutputInv ==
  pc \in {"lz77_uncomp", "intro"} /\ Kept =>
    \A a \in loadAddress..(r1 - 1) : mem[a] = IntroByte(data[a - loadAddress + 1])

StreamInv == LzssTypeOK /\ RoomInv /\ ParseInv /\ ReferencesInv /\ PackInv

LInv == StreamInv /\ BootInv /\ OutputInv

-----------------------------------------------------------------------------
LEMMA SizesAreNumbers ==
  /\ EwramStart \in Nat /\ EwramSize \in Nat /\ EwramEnd \in Nat
  /\ EwramEnd = EwramStart + EwramSize
  /\ HeaderSize \in Nat
  /\ LoadAddresses \subseteq Nat
  /\ Ram \subseteq Nat
  /\ \A a \in EwramStart..(EwramEnd - 1) : a \in Ram
  BY LzssAssumption DEF EwramEnd, Ram

LEMMA InitEstablishes ==
  Init => LInv
<1> SUFFICES ASSUME Init PROVE LInv
  OBVIOUS
<1>1. tokens = << >> /\ data = << >> /\ Len(tokens) = 0 /\ Len(data) = 0
  BY DEF Init
<1>2. LzssTypeOK
  <2>1. mem \in [Ram -> [kind : {"unwritten", "lzss", "intro"}, value : Nat]]
    BY DEF Init, Unwritten
  <2>2. data \in Seq(Bytes)
    BY <1>1, EmptySeq
  <2>3. tokens \in Seq([offset : Nat, length : Nat, start : Nat, to : Nat])
    BY <1>1, EmptySeq
  <2>4. HeaderSize \in Nat
    BY LzssAssumption
  <2>5. correct \in BOOLEAN /\ derailed \in BOOLEAN
    BY DEF Init
  <2> QED BY <2>1, <2>2, <2>3, <2>4, <2>5 DEF Init, LzssTypeOK, Labels
<1>3. RoomInv /\ ParseInv /\ ReferencesInv /\ PackInv
  BY <1>1, LzssAssumption
  DEF Init, RoomInv, ParseInv, ReferencesInv, PackInv, StreamEnd, StreamPosition,
      OutputPosition, Booting
<1>4. BootInv /\ OutputInv
  BY DEF Init, BootInv, OutputInv
<1> QED BY <1>2, <1>3, <1>4 DEF LInv, StreamInv

(* The encoder's chunks of the intro are sequences.                        *)
LEMMA BytesAreSequence ==
  ASSUME NEW n \in Nat, NEW bytes \in [1..n -> Bytes]
  PROVE  bytes \in Seq(Bytes) /\ Len(bytes) = n
<1>1. bytes \in Seq(Bytes)
  BY SMT
<1> QED BY <1>1, SMT

(* What the encoder's two kinds of token have in common.                   *)
RightLength(offset, bytes) ==
  /\ bytes \in Seq(Bytes)
  /\ offset = 0 => Len(bytes) = 1
  /\ offset # 0 => Len(bytes) >= 2

Meaningful(offset, bytes) ==
  offset > 0 =>
    /\ offset <= Len(data)
    /\ \A i \in 1..Len(bytes) : bytes[i] = (data \o bytes)[Len(data) + i - offset]

(* Each token that the encoder emits keeps the room that its stream leaves.*)
LEMMA EmitPreserves ==
  ASSUME StreamInv, pc = "lzss_compress", NEW n \in Nat, n = Len(tokens),
         NEW offset \in Nat, NEW bytes, RightLength(offset, bytes),
         correct' => correct /\ Meaningful(offset, bytes), correct' \in BOOLEAN,
         Emit(offset, bytes)
  PROVE  StreamInv'
<1> DEFINE flag == IF Len(tokens) % TokensPerFlag = 0 THEN 1 ELSE 0
           token == [offset |-> offset, length |-> Len(bytes),
                     start |-> size, to |-> Len(data)]
<1> USE SizesAreNumbers
<1>1. /\ data \in Seq(Bytes) /\ tokens \in Seq(Token) /\ bytes \in Seq(Bytes)
      /\ size \in Nat /\ flags \in Nat /\ padding = 0
      /\ Len(tokens) = n /\ Len(data) \in Nat /\ Len(bytes) \in Nat
  BY DEF StreamInv, LzssTypeOK, PackInv, Token, RightLength
<1>l. /\ offset = 0 => Len(bytes) = 1
      /\ offset # 0 => Len(bytes) >= 2
      /\ Len(bytes) >= 1
  <2>1. (offset = 0 => Len(bytes) = 1) /\ (offset # 0 => Len(bytes) >= 2)
    BY DEF RightLength
  <2> QED BY <1>1, <2>1
<1>2. token \in Token
  BY <1>1 DEF Token
<1>3. flag \in {0, 1} /\ (n = 0 => flag = 1)
  BY <1>1, LzssAssumption
<1>4. /\ data' = data \o bytes /\ tokens' = Append(tokens, token)
      /\ size' = size + flag + (IF offset = 0 THEN 1 ELSE 2)
      /\ flags' = flags + flag
      /\ padding' = 0
      /\ UNCHANGED <<pc, loadAddress, buffer, bootVars>>
  BY <1>1 DEF Emit
<1>t. /\ token.start = size /\ token.to = Len(data)
      /\ token.offset = offset /\ token.length = Len(bytes)
  OBVIOUS
<1> HIDE DEF flag, token
<1>5. /\ tokens' \in Seq(Token) /\ Len(tokens') = n + 1
      /\ \A k \in 1..n : tokens'[k] = tokens[k]
      /\ tokens'[n + 1] = token
  BY <1>1, <1>2, <1>4, AppendProperties
<1>6. /\ data' \in Seq(Bytes) /\ Len(data') = Len(data) + Len(bytes)
      /\ \A i \in 1..Len(data) : data'[i] = data[i]
      /\ \A i \in 1..Len(bytes) : data'[Len(data) + i] = bytes[i]
  BY <1>1, <1>4, ConcatProperties
<1>r. \A k \in 1..n : tokens[k].start \in Nat /\ tokens[k].to \in Nat
  <2>1. \A k \in 1..n : tokens[k] \in Token
    BY <1>1, ElementOfSeq
  <2> QED BY <2>1 DEF Token
<1>s. StreamEnd = size /\ StreamEnd' = size'
  BY <1>1, <1>4 DEF StreamEnd
<1>7. /\ \A k \in 0..n : StreamPosition(k)' = StreamPosition(k)
      /\ StreamPosition(n + 1)' = size'
      /\ StreamPosition(n) = size
  <2>1. StreamPosition(n) = size
    BY <1>1 DEF StreamPosition
  <2>2. StreamPosition(n)' = size
    BY <1>1, <1>t, <1>5 DEF StreamPosition
  <2>3. StreamPosition(n + 1)' = size'
    BY <1>1, <1>4, <1>5, <1>s DEF StreamPosition, StreamEnd
  <2>4. ASSUME NEW k \in 0..(n - 1)
        PROVE  StreamPosition(k)' = StreamPosition(k)
    <3>1. k < n /\ k < Len(tokens') /\ k + 1 \in 1..n
      BY <1>1, <1>5
    <3> QED BY <1>5, <3>1 DEF StreamPosition
  <2> QED BY <1>1, <2>1, <2>2, <2>3, <2>4
<1>8. /\ \A k \in 0..n : OutputPosition(k)' = OutputPosition(k)
      /\ OutputPosition(n + 1)' = Len(data')
      /\ OutputPosition(n) = Len(data)
  <2>1. OutputPosition(n) = Len(data)
    BY <1>1 DEF OutputPosition
  <2>2. OutputPosition(n)' = Len(data)
    BY <1>1, <1>t, <1>5 DEF OutputPosition
  <2>3. OutputPosition(n + 1)' = Len(data')
    BY <1>1, <1>5 DEF OutputPosition
  <2>4. ASSUME NEW k \in 0..(n - 1)
        PROVE  OutputPosition(k)' = OutputPosition(k)
    <3>1. k < n /\ k < Len(tokens') /\ k + 1 \in 1..n
      BY <1>1, <1>5
    <3> QED BY <1>5, <3>1 DEF OutputPosition
  <2> QED BY <1>1, <2>1, <2>2, <2>3, <2>4
<1>9. /\ \A k \in 0..n : StreamPosition(k) \in Nat /\ OutputPosition(k) \in Nat
      /\ size' \in Nat /\ flags' \in Nat
      /\ size' - size - flag <= Len(bytes)
  <2>1. ASSUME NEW k \in 0..n
        PROVE  StreamPosition(k) \in Nat /\ OutputPosition(k) \in Nat
    <3>1. CASE k = n
      BY <1>1, <1>7, <1>8, <3>1
    <3>2. CASE k < n
      BY <1>1, <1>r, <3>2 DEF StreamPosition, OutputPosition
    <3> QED BY <1>1, <3>1, <3>2
  <2>2. size' \in Nat /\ flags' \in Nat /\ size' - size - flag <= Len(bytes)
    <3>1. flag \in Nat
      BY <1>3
    <3>2. CASE offset = 0
      BY <1>1, <1>l, <1>4, <3>1, <3>2
    <3>3. CASE offset # 0
      BY <1>1, <1>l, <1>4, <3>1, <3>3
    <3> QED BY <3>2, <3>3
  <2> QED BY <2>1, <2>2
<1>10. LzssTypeOK'
  BY <1>1, <1>4, <1>5, <1>6, <1>9 DEF StreamInv, LzssTypeOK, Token, bootVars
<1>11. RoomInv'
  <2> SUFFICES ASSUME NEW k \in 0..(n + 1)
               PROVE  StreamEnd' - StreamPosition(k)'
                        <= Len(data') - OutputPosition(k)' + flags'
                             - (IF k = 0 THEN 0 ELSE 1)
    BY <1>5 DEF RoomInv
  <2>1. CASE k \in 0..n
    <3>1. StreamEnd - StreamPosition(k)
            <= Len(data) - OutputPosition(k) + flags - (IF k = 0 THEN 0 ELSE 1)
      BY <2>1 DEF StreamInv, RoomInv
    <3>2. StreamPosition(k)' = StreamPosition(k) /\ OutputPosition(k)' = OutputPosition(k)
      BY <1>7, <1>8, <2>1
    <3>3. StreamPosition(k) \in Nat /\ OutputPosition(k) \in Nat
      BY <1>9, <2>1
    <3>4. /\ Len(data') = Len(data) + Len(bytes) /\ flags' = flags + flag
          /\ size' <= size + flag + Len(bytes) /\ size' \in Nat /\ flag \in Nat
      BY <1>1, <1>3, <1>4, <1>6, <1>9
    <3>5. size \in Nat /\ flags \in Nat /\ Len(data) \in Nat /\ Len(bytes) \in Nat
      BY <1>1
    <3>6. ASSUME NEW c \in Nat,
                 StreamEnd - StreamPosition(k) <= Len(data) - OutputPosition(k) + flags - c
          PROVE  StreamEnd' - StreamPosition(k)' <= Len(data') - OutputPosition(k)' + flags' - c
      <4> PICK x, y, n0, n1, d0, d1, f0, f1, l :
             /\ x = StreamPosition(k) /\ y = OutputPosition(k) /\ l = Len(bytes)
             /\ n0 = size /\ d0 = Len(data) /\ f0 = flags
             /\ n1 = size' /\ d1 = Len(data') /\ f1 = flags'
        OBVIOUS
      <4>1. /\ x \in Nat /\ y \in Nat /\ l \in Nat /\ n0 \in Nat /\ d0 \in Nat
            /\ f0 \in Nat /\ n1 \in Nat /\ flag \in Nat /\ c \in Nat
        BY <3>3, <3>4, <3>5
      <4>2. /\ d1 = d0 + l /\ f1 = f0 + flag /\ n1 <= n0 + flag + l
        BY <3>4
      <4>3. n0 - x <= d0 - y + f0 - c
        BY <1>s, <3>6
      <4>4. n1 - x <= d1 - y + f1 - c
        BY ONLY <4>1, <4>2, <4>3
      <4> QED BY <1>s, <3>2, <4>4
    <3> QED BY <3>1, <3>6
  <2>2. CASE k = n + 1
    <3>1. flags' >= 1
      BY <1>1, <1>3, <1>4 DEF StreamInv, ParseInv
    <3>2. StreamPosition(k)' = size' /\ OutputPosition(k)' = Len(data')
      BY <1>7, <1>8, <2>2
    <3>3. Len(data') \in Nat /\ size' \in Nat /\ flags' \in Nat
      BY <1>1, <1>6, <1>9
    <3> QED BY ONLY <1>s, <2>2, <3>1, <3>2, <3>3
  <2> QED BY <1>1, <2>1, <2>2
<1>12. ParseInv'
  <2>1. StreamPosition(0)' = HeaderSize /\ OutputPosition(0)' = 0
    BY <1>1, <1>7, <1>8 DEF StreamInv, ParseInv
  <2>2. flags' >= 1
    BY <1>1, <1>3, <1>4 DEF StreamInv, ParseInv
  <2>5. ASSUME NEW k \in 1..(n + 1)
        PROVE  /\ tokens'[k].length >= 1
               /\ tokens'[k].offset = 0 => tokens'[k].length = 1
    <3>1. CASE k = n + 1
      BY <1>t, <1>1, <1>l, <1>5, <3>1
    <3>2. CASE k \in 1..n
      BY <1>1, <1>5, <3>2 DEF StreamInv, ParseInv
    <3> QED BY ONLY <3>1, <3>2, n \in Nat, k \in 1..(n + 1)
  <2>3. ASSUME NEW k \in 0..n
        PROVE  /\ StreamPosition(k)' <= StreamPosition(k + 1)'
               /\ OutputPosition(k)' + tokens'[k + 1].length = OutputPosition(k + 1)'
    <3>1. CASE k = n
      <4>1. /\ StreamPosition(k)' = size /\ OutputPosition(k)' = Len(data)
            /\ StreamPosition(k + 1)' = size' /\ OutputPosition(k + 1)' = Len(data')
            /\ tokens'[k + 1].length = Len(bytes)
        BY <1>t, <1>1, <1>5, <1>7, <1>8, <3>1
      <4> QED BY <1>1, <1>3, <1>4, <1>6, <4>1
    <3>2. CASE k \in 0..(n - 1)
      <4>1. /\ StreamPosition(k) <= StreamPosition(k + 1)
            /\ OutputPosition(k) + tokens[k + 1].length = OutputPosition(k + 1)
        BY <3>2 DEF StreamInv, ParseInv
      <4>2. k \in 0..n /\ k + 1 \in 0..n /\ k + 1 \in 1..n
        BY <1>1, <3>2
      <4>3. /\ StreamPosition(k)' = StreamPosition(k)
            /\ StreamPosition(k + 1)' = StreamPosition(k + 1)
            /\ OutputPosition(k)' = OutputPosition(k)
            /\ OutputPosition(k + 1)' = OutputPosition(k + 1)
            /\ tokens'[k + 1] = tokens[k + 1]
        BY <1>5, <1>7, <1>8, <4>2
      <4> QED BY <4>1, <4>3
    <3> QED BY <1>1, <3>1, <3>2
  <2>4. ASSUME NEW k \in 0..(n + 1)
        PROVE  StreamPosition(k)' <= StreamEnd' /\ OutputPosition(k)' <= Len(data')
    <3>1. CASE k = n + 1
      <4>1. StreamPosition(k)' = size' /\ OutputPosition(k)' = Len(data')
        BY <1>7, <1>8, <3>1
      <4> QED BY <1>1, <1>s, <1>6, <1>9, <4>1
    <3>2. CASE k \in 0..n
      <4>1. StreamPosition(k) <= StreamEnd /\ OutputPosition(k) <= Len(data)
        BY <3>2 DEF StreamInv, ParseInv
      <4>2. StreamPosition(k)' = StreamPosition(k) /\ OutputPosition(k)' = OutputPosition(k)
        BY <1>7, <1>8, <3>2
      <4>3. StreamPosition(k) \in Nat /\ OutputPosition(k) \in Nat
        BY <1>9, <3>2
      <4>4. size <= size' /\ Len(data) <= Len(data')
        BY <1>1, <1>3, <1>4, <1>6
      <4>5. /\ size \in Nat /\ size' \in Nat
            /\ Len(data) \in Nat /\ Len(data') \in Nat
        BY <1>1, <1>6, <1>9
      <4> QED BY ONLY <1>s, <4>1, <4>2, <4>3, <4>4, <4>5
    <3> QED BY <1>1, <3>1, <3>2
  <2> QED BY <1>1, <1>5, <2>1, <2>2, <2>3, <2>4, <2>5 DEF ParseInv
<1>13. ReferencesInv'
  <2> SUFFICES ASSUME correct', NEW k \in 1..(n + 1), tokens'[k].offset > 0
               PROVE  /\ tokens'[k].offset <= tokens'[k].to
                      /\ \A i \in 1..tokens'[k].length :
                           /\ tokens'[k].to + i <= Len(data')
                           /\ data'[tokens'[k].to + i]
                                = data'[tokens'[k].to + i - tokens'[k].offset]
    BY <1>5 DEF ReferencesInv
  <2>1. CASE k = n + 1
    <3>1. /\ tokens'[k].offset = offset /\ tokens'[k].length = Len(bytes)
          /\ tokens'[k].to = Len(data)
      BY <1>5, <2>1 DEF token
    <3>2. \A i \in 1..Len(bytes) : data'[Len(data) + i] = data'[Len(data) + i - offset]
      <4> SUFFICES ASSUME NEW i \in 1..Len(bytes)
                   PROVE  data'[Len(data) + i] = data'[Len(data) + i - offset]
        OBVIOUS
      <4>1. bytes[i] = data'[Len(data) + i - offset]
        BY <1>4, <3>1, <2>1 DEF Meaningful
      <4> QED BY <1>6, <4>1
    <3>3. offset <= Len(data)
      BY <3>1 DEF Meaningful
    <3>4. \A i \in 1..Len(bytes) : Len(data) + i <= Len(data')
      BY <1>1, <1>6
    <3> QED BY <3>1, <3>2, <3>3, <3>4
  <2>2. CASE k \in 1..n
    <3>1. /\ tokens[k].offset <= tokens[k].to
          /\ \A i \in 1..tokens[k].length :
               /\ tokens[k].to + i <= Len(data)
               /\ data[tokens[k].to + i] = data[tokens[k].to + i - tokens[k].offset]
      BY <1>5, <2>2 DEF StreamInv, ReferencesInv
    <3>2. tokens'[k] = tokens[k]
      BY <1>5, <2>2
    <3> DEFINE o == tokens[k].offset  t == tokens[k].to  l == tokens[k].length
    <3>3. o \in Nat /\ t \in Nat /\ l \in Nat
      <4>1. tokens[k] \in Token
        BY <1>1, <2>2, ElementOfSeq
      <4> QED BY <4>1 DEF Token
    <3>4. Len(data) <= Len(data')
      BY <1>1, <1>6
    <3>5. o > 0
      BY <3>2
    <3>6. \A i \in 1..l : t + i <= Len(data') /\ data'[t + i] = data'[t + i - o]
      <4>1. o <= t /\ \A i \in 1..l : t + i <= Len(data) /\ data[t + i] = data[t + i - o]
        BY <3>1
      <4>2. data' \in Seq(Bytes) /\ \A i \in 1..Len(data) : data'[i] = data[i]
        BY <1>6
      <4> HIDE DEF o, t, l
      <4> SUFFICES ASSUME NEW i \in 1..l
                   PROVE  t + i <= Len(data') /\ data'[t + i] = data'[t + i - o]
        OBVIOUS
      <4>3. t + i <= Len(data) /\ o <= t
        BY <4>1
      <4>6. t + i \in 1..Len(data) /\ t + i - o \in 1..Len(data)
        BY <1>1, <3>3, <3>5, <4>3
      <4>4. data'[t + i] = data[t + i] /\ data'[t + i - o] = data[t + i - o]
        BY <4>2, <4>6
      <4>5. data[t + i] = data[t + i - o]
        BY <4>1
      <4> QED BY <1>1, <3>3, <3>4, <4>3, <4>4, <4>5
    <3> QED BY <3>1, <3>2, <3>6
  <2> QED BY <1>1, <2>1, <2>2
<1>14. PackInv'
  BY <1>1, <1>4 DEF PackInv, Booting
<1> QED BY <1>10, <1>11, <1>12, <1>13, <1>14 DEF StreamInv

(* The packer's remaining steps leave the parse alone.                     *)
LEMMA PackPreserves ==
  ASSUME LInv, Pack
  PROVE  LInv'
<1> USE SizesAreNumbers
<1>1. CASE EncodeLiteral
  <2>1. PICK b \in Bytes : Emit(0, <<b>>) /\ UNCHANGED correct
    BY <1>1 DEF EncodeLiteral
  <2>2. PICK n \in Nat : n = Len(tokens)
    BY DEF LInv, StreamInv, LzssTypeOK
  <2>3. RightLength(0, <<b>>) /\ Meaningful(0, <<b>>)
    BY DEF RightLength, Meaningful
  <2>4. pc = "lzss_compress" /\ pc' = pc /\ UNCHANGED bootVars
    BY <2>1 DEF Emit
  <2>5. StreamInv'
    <3>1. correct' = correct /\ correct \in BOOLEAN
      BY <2>1 DEF LInv, StreamInv, LzssTypeOK
    <3> QED BY <2>1, <2>2, <2>3, <2>4, <3>1, EmitPreserves DEF LInv
  <2>6. BootInv' /\ OutputInv'
    BY <2>4 DEF LInv, BootInv, OutputInv, bootVars
  <2> QED BY <2>5, <2>6 DEF LInv
<1>2. CASE EncodeReference
  <2>1. PICK offset \in 1..Len(data), length \in MinLength..MaxLength :
          \E bytes \in [1..length -> Bytes] :
            /\ Emit(offset, bytes)
            /\ correct' = (correct /\ \A i \in 1..length :
                                       bytes[i] = (data \o bytes)[Len(data) + i - offset])
    BY <1>2 DEF EncodeReference
  <2>2. PICK bytes \in [1..length -> Bytes] :
          /\ Emit(offset, bytes)
          /\ correct' = (correct /\ \A i \in 1..length :
                                     bytes[i] = (data \o bytes)[Len(data) + i - offset])
    BY <2>1
  <2>3. PICK n \in Nat : n = Len(tokens)
    BY DEF LInv, StreamInv, LzssTypeOK
  <2>4. length \in Nat /\ length >= 2
    BY LzssAssumption
  <2>5. bytes \in Seq(Bytes) /\ Len(bytes) = length
    BY <2>2, <2>4, BytesAreSequence
  <2>6. pc = "lzss_compress" /\ pc' = pc /\ UNCHANGED bootVars
    BY <2>2 DEF Emit
  <2>7. StreamInv'
    <3>1. Len(data) \in Nat /\ correct \in BOOLEAN
      BY DEF LInv, StreamInv, LzssTypeOK
    <3>2. offset \in Nat /\ offset <= Len(data)
      BY <3>1
    <3>3. Emit(offset, bytes)
      BY <2>2
    <3>4. correct' \in BOOLEAN /\ (correct' => correct)
      BY <2>2, <3>1
    <3>5. RightLength(offset, bytes)
      BY <2>4, <2>5 DEF RightLength
    <3>6. correct' => Meaningful(offset, bytes)
      BY <2>2, <2>5, <3>2 DEF Meaningful
    <3> QED
      BY <2>3, <2>6, <3>2, <3>3, <3>4, <3>5, <3>6, EmitPreserves DEF LInv
  <2>8. BootInv' /\ OutputInv'
    BY <2>6 DEF LInv, BootInv, OutputInv, bootVars
  <2> QED BY <2>7, <2>8 DEF LInv
<1>3. ASSUME NEW p \in Paddings, LzssCompress(p)
      PROVE  LInv'
  <2>1. /\ padding = 0 /\ padding' = p /\ size' = size + p /\ p \in Nat /\ size \in Nat
        /\ UNCHANGED <<loadAddress, data, tokens, flags, correct, buffer, bootVars>>
        /\ pc = "lzss_compress" /\ pc' = IF correct THEN "huffman_compress" ELSE "thrown"
    BY <1>3, LzssAssumption DEF LzssCompress, LInv, StreamInv, PackInv, LzssTypeOK
  <2>2. StreamEnd' = StreamEnd
    BY <2>1 DEF StreamEnd
  <2>3. \A k : StreamPosition(k)' = StreamPosition(k) /\ OutputPosition(k)' = OutputPosition(k)
    BY <2>1 DEF StreamPosition, OutputPosition
  <2>4. LzssTypeOK'
    BY <2>1 DEF LInv, StreamInv, LzssTypeOK, Labels, bootVars
  <2>5. RoomInv' /\ ParseInv' /\ ReferencesInv'
    BY <2>1, <2>2, <2>3 DEF LInv, StreamInv, RoomInv, ParseInv, ReferencesInv
  <2>6. PackInv' /\ BootInv' /\ OutputInv'
    BY <2>1 DEF LInv, StreamInv, PackInv, Booting, BootInv, OutputInv, bootVars
  <2> QED BY <2>4, <2>5, <2>6 DEF LInv, StreamInv
<1>4. CASE HuffmanCompress
  <2>1. /\ UNCHANGED <<packVars, bootVars>>
        /\ pc = "huffman_compress" /\ pc' \in {"assemble_cartridge", "thrown"}
    BY <1>4 DEF HuffmanCompress
  <2>2. LzssTypeOK' /\ RoomInv' /\ ParseInv' /\ ReferencesInv'
    BY <2>1 DEF LInv, StreamInv, LzssTypeOK, RoomInv, ParseInv, ReferencesInv, Labels,
                StreamPosition, OutputPosition, StreamEnd, packVars, bootVars
  <2>3. PackInv' /\ BootInv' /\ OutputInv'
    BY <2>1 DEF LInv, StreamInv, PackInv, Booting, BootInv, OutputInv, packVars, bootVars
  <2> QED BY <2>2, <2>3 DEF LInv, StreamInv
<1>5. CASE AssembleCartridge
  <2>1. /\ UNCHANGED <<loadAddress, data, tokens, size, flags, padding, correct, bootVars>>
        /\ buffer' = EwramEnd - size
        /\ pc = "assemble_cartridge"
        /\ pc' = IF buffer' % 4 = 0 THEN "code_start" ELSE "thrown"
    BY <1>5 DEF AssembleCartridge
  <2>2. buffer' \in Int
    BY <2>1 DEF LInv, StreamInv, LzssTypeOK
  <2>3. LzssTypeOK' /\ RoomInv' /\ ParseInv' /\ ReferencesInv'
    BY <2>1, <2>2 DEF LInv, StreamInv, LzssTypeOK, RoomInv, ParseInv, ReferencesInv, Labels,
                StreamPosition, OutputPosition, StreamEnd, bootVars
  <2>4. PackInv' /\ BootInv' /\ OutputInv'
    BY <2>1 DEF LInv, StreamInv, PackInv, Booting, BootInv, OutputInv, EwramEnd, bootVars
  <2> QED BY <2>3, <2>4 DEF LInv, StreamInv
<1> QED BY <1>1, <1>2, <1>3, <1>4, <1>5 DEF Pack

-----------------------------------------------------------------------------
(* The positions of tokens are numbers.                                    *)
LEMMA PositionsAreNumbers ==
  ASSUME StreamInv
  PROVE  /\ Len(tokens) \in Nat /\ Len(data) \in Nat
         /\ \A k \in 1..Len(tokens) : tokens[k] \in Token
         /\ \A k \in 0..Len(tokens) : StreamPosition(k) \in Int /\ OutputPosition(k) \in Nat
         /\ HeaderSize <= size
<1>1. /\ tokens \in Seq(Token) /\ data \in Seq(Bytes)
      /\ size \in Nat /\ padding \in Nat /\ Len(tokens) \in Nat /\ Len(data) \in Nat
  BY DEF StreamInv, LzssTypeOK, Token
<1>2. \A k \in 1..Len(tokens) : tokens[k] \in Token
  BY <1>1, ElementOfSeq
<1>3. \A k \in 1..Len(tokens) : tokens[k].start \in Nat /\ tokens[k].to \in Nat
  BY <1>2 DEF Token
<1>4. ASSUME NEW k \in 0..Len(tokens)
      PROVE  StreamPosition(k) \in Int /\ OutputPosition(k) \in Nat
  <2>1. CASE k = Len(tokens)
    BY <1>1, <2>1 DEF StreamPosition, OutputPosition
  <2>2. CASE k < Len(tokens)
    <3>1. k + 1 \in 1..Len(tokens)
      BY <1>1, <2>2
    <3> QED BY <1>3, <2>2, <3>1 DEF StreamPosition, OutputPosition
  <2> QED BY <1>1, <2>1, <2>2
<1>5. HeaderSize <= size
  <2>1. HeaderSize <= StreamEnd
    BY <1>1 DEF StreamInv, ParseInv
  <2> QED BY <1>1, <2>1, SizesAreNumbers DEF StreamEnd
<1> QED BY <1>1, <1>2, <1>4, <1>5

(* A part of an intact stretch of the stream is intact.                    *)
LEMMA HoldsPart ==
  ASSUME NEW address \in Int, NEW n \in Int, NEW start \in Int, Holds(address, n, start),
         NEW part \in Int, NEW m \in Int, NEW from \in Int,
         part >= address, part - address = from - start, from + m <= start + n
  PROVE  Holds(part, m, from)
<1> SUFFICES ASSUME NEW i \in 0..(m - 1)
             PROVE  part + i \in Ram /\ mem[part + i] = LzssByte(from + i)
  BY DEF Holds
<1> DEFINE j == part - address + i
<1>1. j \in 0..(n - 1) /\ address + j = part + i /\ start + j = from + i
  OBVIOUS
<1> HIDE DEF j
<1> QED BY <1>1 DEF Holds

(* Booting changes nothing that the packer has settled.                    *)
LEMMA BootKeepsStream ==
  ASSUME LInv, UNCHANGED packVars, LzssTypeOK', Booting, Booting'
  PROVE  /\ StreamInv'
         /\ RoomAbove' = RoomAbove /\ LoadAreaInRam' = LoadAreaInRam
<1>1. RoomInv' /\ ParseInv' /\ ReferencesInv' /\ PackInv'
  BY DEF LInv, StreamInv, RoomInv, ParseInv, ReferencesInv, PackInv, Booting,
         StreamPosition, OutputPosition, StreamEnd, packVars
<1> QED BY <1>1 DEF StreamInv, RoomAbove, LoadAreaInRam, packVars

LEMMA CodeStartPreserves ==
  ASSUME LInv, CodeStart
  PROVE  LInv'
<1> USE SizesAreNumbers
<1>1. /\ UNCHANGED <<packVars, tok, copy, left, derailed>>
      /\ pc = "code_start" /\ pc' = "lzss_decode"
      /\ mem' = [a \in Ram |-> IF a \in buffer..(buffer + size - 1)
                                  THEN LzssByte(a - buffer) ELSE mem[a]]
      /\ r0' \in Nat /\ r1' \in Nat
  BY LzssAssumption DEF CodeStart
<1>2. buffer \in Int /\ size \in Nat /\ buffer = EwramEnd - size
  BY <1>1 DEF LInv, StreamInv, LzssTypeOK, PackInv, Booting
<1>3. LzssTypeOK'
  <2>1. mem' \in [Ram -> [kind : {"unwritten", "lzss", "intro"}, value : Nat]]
    BY <1>1, <1>2 DEF LzssByte, LInv, StreamInv, LzssTypeOK
  <2> QED BY <1>1, <2>1 DEF LInv, StreamInv, LzssTypeOK, Labels, packVars
<1>4. StreamInv'
  BY <1>1, <1>3, BootKeepsStream DEF Booting
<1>5. size <= EwramSize => Holds(buffer, size, 0)'
  <2> SUFFICES ASSUME size <= EwramSize, NEW i \in 0..(size - 1)
               PROVE  buffer + i \in Ram /\ mem'[buffer + i] = LzssByte(0 + i)
    BY <1>1 DEF Holds, packVars
  <2>1. buffer + i \in EwramStart..(EwramEnd - 1) /\ buffer + i \in buffer..(buffer + size - 1)
    BY <1>2
  <2>2. mem'[buffer + i] = LzssByte((buffer + i) - buffer)
    BY <1>1, <2>1
  <2>3. (buffer + i) - buffer = 0 + i
    BY <1>2
  <2> QED BY <2>1, <2>2, <2>3
<1>6. BootInv' /\ OutputInv'
  BY <1>1, <1>5 DEF LInv, BootInv, OutputInv, packVars
<1> QED BY <1>4, <1>6 DEF LInv

LEMMA LzssDecodePreserves ==
  ASSUME LInv, LzssDecode
  PROVE  LInv'
<1> USE SizesAreNumbers
<1>1. /\ UNCHANGED <<packVars, mem, tok, copy>>
      /\ pc = "lzss_decode" /\ pc' = "lz77_uncomp"
      /\ r0' = buffer + HeaderSize
      /\ r1' = loadAddress
      /\ IF Holds(buffer, HeaderSize, 0)
           THEN left' = Len(data) /\ UNCHANGED derailed
           ELSE left' \in 1..MaxData /\ derailed' = TRUE
      /\ tok = 1 /\ copy = 0 /\ ~derailed
  BY DEF LzssDecode, Lz77Uncomp, LInv, BootInv
<1>2. /\ buffer \in Int /\ size \in Nat /\ loadAddress \in Nat
      /\ derailed \in BOOLEAN /\ Len(data) \in Nat /\ Len(tokens) \in Nat
      /\ HeaderSize <= size
  BY PositionsAreNumbers DEF LInv, StreamInv, LzssTypeOK
<1>3. LzssTypeOK'
  <2>1. left' \in Nat /\ derailed' \in BOOLEAN
    <3>1. CASE left' \in 1..MaxData /\ derailed' = TRUE
      BY <3>1, LzssAssumption
    <3>2. CASE left' = Len(data) /\ UNCHANGED derailed
      BY <1>2, <3>2
    <3> QED BY <1>1, <3>1, <3>2
  <2> QED BY <1>1, <1>2, <2>1 DEF LInv, StreamInv, LzssTypeOK, Labels, packVars
<1>4. StreamInv' /\ RoomAbove' = RoomAbove
  BY <1>1, <1>3, BootKeepsStream DEF Booting
<1>5. RegistersInv'
  <2>1. StreamPosition(0) = HeaderSize /\ OutputPosition(0) = 0
    BY DEF LInv, StreamInv, ParseInv
  <2>2. (StreamPosition(tok - 1))' = HeaderSize /\ (OutputPosition(tok - 1))' = 0
    BY <1>1, <1>2, <2>1 DEF StreamPosition, OutputPosition, packVars
  <2>3. ~derailed' => left' = Len(data')
    BY <1>1 DEF packVars
  <2> QED BY <1>1, <1>2, <2>2, <2>3 DEF RegistersInv, packVars
<1>6. ASSUME RoomAbove PROVE Intact'
  <2>1. Holds(buffer, size, 0)
    BY <1>1, <1>6 DEF RoomAbove, LInv, BootInv
  <2>2. Holds(buffer, HeaderSize, 0)
    BY <1>2, <2>1, HoldsPart
  <2>3. Holds(buffer + HeaderSize, size - HeaderSize, HeaderSize)
    BY <1>2, <2>1, HoldsPart
  <2>4. ~derailed'
    BY <1>1, <1>2, <2>2
  <2>5. Holds(r0', size' - (r0' - buffer'), r0' - buffer')
    BY <1>1, <1>2, <2>3 DEF packVars
  <2> QED BY <1>1, <2>4, <2>5 DEF Intact, Holds
<1>7. BootInv'
  BY <1>1, <1>4, <1>5, <1>6 DEF BootInv
<1>8. OutputInv'
  BY <1>1, <1>2 DEF OutputInv, packVars
<1> QED BY <1>4, <1>7, <1>8 DEF LInv

LEMMA Advance ==
  ASSUME NEW base \in Int, NEW from \in Int, NEW to \in Int, NEW pos, pos = base + from
  PROVE  pos - base = from /\ pos + (to - from) = base + to
  OBVIOUS

(* With RoomAbove the BIOS finds every token, and leaves the rest intact.  *)
LEMMA ReadTokenPreserves ==
  ASSUME LInv, ReadToken
  PROVE  LInv'
<1> USE SizesAreNumbers
<1>1. /\ UNCHANGED <<pc, packVars, mem, r1, left>>
      /\ pc = "lz77_uncomp" /\ left > 0 /\ copy = 0 /\ ~derailed
      /\ \/ /\ Holds(r0, StreamPosition(tok) - StreamPosition(tok - 1), StreamPosition(tok - 1))
            /\ r0' = r0 + (StreamPosition(tok) - StreamPosition(tok - 1))
            /\ copy' = tokens[tok].length
            /\ tok' = tok + 1
            /\ UNCHANGED derailed
         \/ /\ ~Holds(r0, StreamPosition(tok) - StreamPosition(tok - 1), StreamPosition(tok - 1))
            /\ derailed' = TRUE /\ UNCHANGED <<r0, tok, copy>>
  BY DEF ReadToken
<1>2. /\ buffer \in Int /\ size \in Nat /\ padding \in Nat /\ loadAddress \in Nat
      /\ r0 \in Int /\ r1 \in Nat /\ tok \in Nat \ {0} /\ left \in Nat
  BY DEF LInv, StreamInv, LzssTypeOK
<1>3. RegistersInv /\ (RoomAbove => Intact)
  BY <1>1 DEF LInv, BootInv
<1>4. /\ r0 = buffer + StreamPosition(tok - 1)
      /\ r1 = loadAddress + OutputPosition(tok - 1)
      /\ left = Len(data) - (r1 - loadAddress)
      /\ r1 >= loadAddress
      /\ tok <= Len(tokens) + 1
  BY <1>1, <1>2, <1>3 DEF RegistersInv
<1>5. Len(tokens) \in Nat /\ Len(data) \in Nat
  BY PositionsAreNumbers DEF LInv
<1>6. tok \in 1..Len(tokens)
  <2>1. SUFFICES ASSUME tok = Len(tokens) + 1 PROVE FALSE
    BY <1>2, <1>4, <1>5
  <2>2. OutputPosition(tok - 1) = Len(data)
    BY <1>5, <2>1 DEF OutputPosition
  <2> QED BY <1>1, <1>2, <1>4, <1>5, <2>2
<1>7. /\ StreamPosition(tok - 1) \in Int /\ StreamPosition(tok) \in Int
      /\ OutputPosition(tok - 1) \in Nat /\ OutputPosition(tok) \in Nat
      /\ StreamPosition(tok - 1) <= StreamPosition(tok)
      /\ StreamPosition(tok) <= size - padding
      /\ OutputPosition(tok - 1) + tokens[tok].length = OutputPosition(tok)
      /\ tokens[tok].length \in Nat /\ tokens[tok].length >= 1
  <2>1. tok - 1 \in 0..(Len(tokens) - 1) /\ tok \in 0..Len(tokens)
        /\ tok - 1 \in 0..Len(tokens) /\ (tok - 1) + 1 = tok
    BY <1>5, <1>6
  <2>2. /\ StreamPosition(tok - 1) <= StreamPosition((tok - 1) + 1)
        /\ OutputPosition(tok - 1) + tokens[(tok - 1) + 1].length = OutputPosition((tok - 1) + 1)
    BY <2>1 DEF LInv, StreamInv, ParseInv
  <2>3. StreamPosition(tok) <= StreamEnd /\ tokens[tok].length >= 1
    BY <1>6, <2>1 DEF LInv, StreamInv, ParseInv
  <2>4. tokens[tok].length \in Nat
    BY <1>6, PositionsAreNumbers DEF LInv, Token
  <2>5. /\ StreamPosition(tok - 1) \in Int /\ StreamPosition(tok) \in Int
        /\ OutputPosition(tok - 1) \in Nat /\ OutputPosition(tok) \in Nat
    BY <2>1, PositionsAreNumbers DEF LInv
  <2> QED BY <2>1, <2>2, <2>3, <2>4, <2>5 DEF StreamEnd
<1>8. CASE derailed'
  <2>1. /\ ~Holds(r0, StreamPosition(tok) - StreamPosition(tok - 1), StreamPosition(tok - 1))
        /\ derailed' = TRUE /\ UNCHANGED <<r0, tok, copy>>
    BY <1>1, <1>8
  <2>2. ~RoomAbove
    <3>1. SUFFICES ASSUME Holds(r0, size - (r0 - buffer), r0 - buffer) PROVE FALSE
      BY <1>3 DEF Intact
    <3>2. r0 - buffer = StreamPosition(tok - 1) /\ size - (r0 - buffer) \in Int
      <4>1. buffer \in Int /\ r0 \in Int /\ size \in Int
        BY <1>2
      <4>2. r0 = buffer + StreamPosition(tok - 1) /\ StreamPosition(tok - 1) \in Int
        BY <1>4, <1>7
      <4> QED BY ONLY <4>1, <4>2, Advance
    <3>3. StreamPosition(tok - 1) + (StreamPosition(tok) - StreamPosition(tok - 1))
            <= (r0 - buffer) + (size - (r0 - buffer))
      BY ONLY <1>2, <1>7, <3>2
    <3>4. Holds(r0, StreamPosition(tok) - StreamPosition(tok - 1), StreamPosition(tok - 1))
      BY <1>2, <1>7, <3>1, <3>2, <3>3, HoldsPart
    <3> QED BY <2>1, <3>4
  <2>3. LzssTypeOK'
    BY <1>1, <2>1 DEF LInv, StreamInv, LzssTypeOK, packVars
  <2>4. StreamInv' /\ RoomAbove' = RoomAbove
    BY <1>1, <2>3, BootKeepsStream DEF Booting
  <2>5. RegistersInv'
    BY <1>1, <1>3, <1>4, <2>1 DEF RegistersInv, packVars
  <2>6. BootInv'
    BY <1>1, <2>2, <2>4, <2>5 DEF BootInv
  <2>7. OutputInv'
    BY <1>1 DEF LInv, OutputInv, Kept, RoomAbove, LoadAreaInRam, packVars
  <2> QED BY <2>4, <2>6, <2>7 DEF LInv
<1>9. CASE ~derailed'
  <2>1. /\ r0' = r0 + (StreamPosition(tok) - StreamPosition(tok - 1))
        /\ copy' = tokens[tok].length
        /\ tok' = tok + 1
        /\ derailed' = derailed
    BY <1>1, <1>9
  <2>2. r0' = buffer + StreamPosition(tok) /\ r1 + copy' = loadAddress + OutputPosition(tok)
    <3>1. /\ buffer \in Int /\ StreamPosition(tok - 1) \in Int /\ StreamPosition(tok) \in Int
          /\ r0 = buffer + StreamPosition(tok - 1)
      BY <1>2, <1>4, <1>7
    <3>2. r0' = buffer + StreamPosition(tok)
      BY ONLY <2>1, <3>1, Advance
    <3>3. /\ r1 + copy' = (loadAddress + OutputPosition(tok - 1)) + copy'
          /\ OutputPosition(tok - 1) + copy' = OutputPosition(tok)
      BY <1>4, <1>7, <2>1
    <3>4. loadAddress \in Nat /\ OutputPosition(tok - 1) \in Nat /\ copy' \in Nat
      BY <1>2, <1>7, <2>1
    <3> QED BY ONLY <3>2, <3>3, <3>4
  <2>3. LzssTypeOK'
    <3>1. r0' \in Int /\ copy' \in Nat /\ tok' \in Nat \ {0}
      BY <1>2, <1>7, <2>1
    <3> QED BY <1>1, <2>1, <3>1 DEF LInv, StreamInv, LzssTypeOK, packVars
  <2>4. StreamInv' /\ RoomAbove' = RoomAbove
    BY <1>1, <2>3, BootKeepsStream DEF Booting
  <2>5. tok' - 1 = tok
    BY <1>2, <2>1
  <2>6. (StreamPosition(tok - 1))' = StreamPosition(tok)
        /\ (OutputPosition(tok - 1))' = OutputPosition(tok)
    BY <1>1, <2>5 DEF StreamPosition, OutputPosition, packVars
  <2>7. RegistersInv'
    <3>1. /\ tok' <= Len(tokens) + 1 /\ tok' >= 2 /\ copy' <= tokens[tok' - 1].length
      <4>1. tokens[tok' - 1].length = copy'
        BY <2>1, <2>5
      <4>2. copy' \in Nat /\ tok' = tok + 1 /\ tok \in 1..Len(tokens) /\ Len(tokens) \in Nat
        BY <1>5, <1>6, <1>7, <2>1
      <4>3. copy' <= tokens[tok' - 1].length
        BY <4>1, <4>2
      <4> QED BY ONLY <4>2, <4>3
    <3> QED BY <1>1, <1>4, <1>9, <2>2, <2>6, <3>1 DEF RegistersInv, packVars
  <2>8. ASSUME RoomAbove PROVE Intact'
    <3>1. Holds(r0, size - (r0 - buffer), r0 - buffer)
      BY <1>3, <2>8 DEF Intact
    <3>2. /\ r0' \in Int /\ r0' >= r0 /\ size - (r0' - buffer) \in Int
          /\ r0' - r0 = (r0' - buffer) - (r0 - buffer)
          /\ (r0' - buffer) + (size - (r0' - buffer)) <= (r0 - buffer) + (size - (r0 - buffer))
          /\ r0' - buffer \in Int /\ r0 - buffer \in Int /\ size - (r0 - buffer) \in Int
      BY <1>2, <1>7, <2>1
    <3>3. Holds(r0', size - (r0' - buffer), r0' - buffer)
      BY <1>2, <3>1, <3>2, HoldsPart
    <3> QED BY <1>1, <1>9, <3>3 DEF Intact, Holds, packVars
  <2>9. BootInv'
    BY <1>1, <2>4, <2>7, <2>8 DEF BootInv
  <2>10. OutputInv'
    BY <1>1 DEF LInv, OutputInv, Kept, RoomAbove, LoadAreaInRam, packVars
  <2> QED BY <2>4, <2>9, <2>10 DEF LInv
<1> QED BY <1>8, <1>9

(* Where the byte that the BIOS writes next belongs: `to` and `n` are the   *)
(* token's position in the output and its length.                          *)
LEMMA CopyPosition ==
  ASSUME LInv, pc = "lz77_uncomp", left > 0, copy > 0,
         NEW t, t = tok - 1,
         NEW to, to = tokens[t].to, NEW n, n = tokens[t].length,
         NEW offset, offset = tokens[t].offset, NEW len, len = Len(data),
         NEW sp, sp = StreamPosition(t)
  PROVE  /\ t \in 1..Len(tokens)
         /\ to \in Nat /\ n \in Nat /\ offset \in Nat /\ len \in Nat /\ sp \in Int
         /\ OutputPosition(t) = to + n
         /\ to + n <= len
         /\ copy <= n /\ ~derailed
         /\ offset = 0 => n = 1
         /\ r0 = buffer + sp
         /\ r1 + copy = loadAddress + (to + n)
         /\ left = len - (r1 - loadAddress)
<1>1. /\ r1 \in Nat /\ loadAddress \in Nat /\ tok \in Nat /\ copy \in Nat
      /\ Len(tokens) \in Nat
  BY PositionsAreNumbers, LzssAssumption DEF LInv, StreamInv, LzssTypeOK
<1>2. RegistersInv
  BY DEF LInv, BootInv
<1>3. /\ t + 1 <= Len(tokens) + 1 /\ t + 1 >= 2 /\ t \in Int
      /\ copy <= tokens[t].length /\ ~derailed
      /\ r0 = buffer + StreamPosition(t)
      /\ r1 + copy = loadAddress + OutputPosition(t)
      /\ left = Len(data) - (r1 - loadAddress)
  BY <1>1, <1>2 DEF RegistersInv
<1>4. t \in 1..Len(tokens) /\ t \in 0..Len(tokens)
      /\ t - 1 \in 0..(Len(tokens) - 1) /\ (t - 1) + 1 = t
  BY ONLY <1>1, <1>3
<1>5. tokens[t] \in Token /\ StreamPosition(t) \in Int /\ Len(data) \in Nat
  BY <1>4, PositionsAreNumbers DEF LInv
<1>6. OutputPosition(t - 1) = tokens[t].to
  BY <1>1, <1>4 DEF OutputPosition
<1>7. /\ OutputPosition(t - 1) + tokens[(t - 1) + 1].length = OutputPosition((t - 1) + 1)
      /\ OutputPosition(t) <= Len(data)
      /\ tokens[t].offset = 0 => tokens[t].length = 1
  BY <1>4 DEF LInv, StreamInv, ParseInv
<1>8. OutputPosition(t) = to + n
  BY <1>4, <1>6, <1>7
<1>9. to \in Nat /\ n \in Nat /\ offset \in Nat
  BY <1>5 DEF Token
<1> QED BY <1>3, <1>4, <1>5, <1>7, <1>8, <1>9

(* With RoomAbove, it is written below what is still to be read.           *)
LEMMA WritesBelow ==
  ASSUME LInv, pc = "lz77_uncomp", left > 0, copy > 0, RoomAbove,
         NEW a \in Int, a >= r0, a <= r0 + (size - (r0 - buffer) - 1)
  PROVE  a # r1
<1> USE SizesAreNumbers
<1> PICK t : t = tok - 1
  OBVIOUS
<1> PICK to, n, offset, len, sp :
      /\ to = tokens[t].to /\ n = tokens[t].length /\ offset = tokens[t].offset
      /\ len = Len(data) /\ sp = StreamPosition(t)
  OBVIOUS
<1>1. /\ size \in Nat /\ flags \in Nat /\ padding \in Nat /\ loadAddress \in Nat
      /\ buffer \in Int /\ r0 \in Int /\ r1 \in Nat /\ copy \in Nat
      /\ buffer = EwramEnd - size
  BY LzssAssumption DEF LInv, StreamInv, LzssTypeOK, PackInv, Booting
<1>2. /\ t \in 1..Len(tokens)
      /\ to \in Nat /\ n \in Nat /\ len \in Nat /\ sp \in Int
      /\ OutputPosition(t) = to + n
      /\ r0 = buffer + sp
      /\ r1 + copy = loadAddress + (to + n)
  BY CopyPosition
<1>3. CASE EwramEnd <= loadAddress
  <2>1. r1 >= loadAddress
    BY <1>1 DEF LInv, BootInv, RegistersInv
  <2>2. a <= EwramEnd - 1
    BY <1>1
  <2> QED BY <1>1, <1>3, <2>1, <2>2
<1>4. CASE loadAddress + len + flags - 1 + padding <= EwramEnd
  <2>1. StreamEnd - StreamPosition(t) <= Len(data) - OutputPosition(t) + flags - 1
    <3>1. t \in 0..Len(tokens) /\ t # 0
      BY <1>2
    <3> QED BY <3>1 DEF LInv, StreamInv, RoomInv
  <2>2. (size - padding) - sp <= len - (to + n) + flags - 1
    BY <1>2, <2>1 DEF StreamEnd
  <2>3. r1 + copy <= r0
    BY ONLY SizesAreNumbers, <1>1, <1>2, <1>4, <2>2
  <2> QED BY ONLY <1>1, <2>3, a \in Int, a >= r0, copy > 0
<1> QED BY <1>3, <1>4 DEF RoomAbove

LEMMA CopyBytePreserves ==
  ASSUME LInv, CopyByte
  PROVE  LInv'
<1> USE SizesAreNumbers
<1> PICK t : t = tok - 1
  OBVIOUS
<1> PICK to, n, offset, len, sp :
      /\ to = tokens[t].to /\ n = tokens[t].length /\ offset = tokens[t].offset
      /\ len = Len(data) /\ sp = StreamPosition(t)
  OBVIOUS
<1>1. PICK b \in IF offset = 0 THEN {data[to + 1]} ELSE Read(r1 - offset) :
        mem' = [a \in Ram |-> IF a = r1 THEN IntroByte(b) ELSE mem[a]]
  BY DEF CopyByte, WriteByte
<1>2. /\ UNCHANGED <<pc, packVars, r0, tok, derailed>>
      /\ pc = "lz77_uncomp" /\ left > 0 /\ copy > 0
      /\ copy' = copy - 1 /\ r1' = r1 + 1 /\ left' = left - 1
  BY DEF CopyByte, WriteByte
<1>3. /\ size \in Nat /\ loadAddress \in Nat /\ left \in Nat /\ tok \in Nat
      /\ buffer \in Int /\ r0 \in Int /\ r1 \in Nat /\ copy \in Nat
      /\ data \in Seq(Bytes) /\ Bytes \subseteq Nat
      /\ mem \in [Ram -> [kind : {"unwritten", "lzss", "intro"}, value : Nat]]
  BY LzssAssumption DEF LInv, StreamInv, LzssTypeOK
<1>4. /\ t \in 1..Len(tokens)
      /\ to \in Nat /\ n \in Nat /\ offset \in Nat /\ len \in Nat /\ sp \in Int
      /\ OutputPosition(t) = to + n
      /\ to + n <= len
      /\ copy <= n /\ ~derailed
      /\ offset = 0 => n = 1
      /\ r0 = buffer + sp
      /\ r1 + copy = loadAddress + (to + n)
      /\ left = len - (r1 - loadAddress)
  BY <1>2, CopyPosition
<1>6. b \in Nat
  <2>1. CASE offset = 0
    <3>1. to + 1 \in 1..Len(data)
      BY <1>4, <2>1
    <3>2. data[to + 1] \in Bytes
      BY <1>3, <3>1, ElementOfSeq
    <3> QED BY <1>1, <1>3, <2>1, <3>2
  <2>2. CASE offset # 0
    <3>1. b \in Read(r1 - offset)
      BY <1>1, <2>2
    <3> QED BY <1>3, <3>1 DEF Read
  <2> QED BY <2>1, <2>2
<1>7. LzssTypeOK'
  <2>1. mem' \in [Ram -> [kind : {"unwritten", "lzss", "intro"}, value : Nat]]
    BY <1>1, <1>3, <1>6 DEF IntroByte
  <2>2. r1' \in Nat /\ left' \in Nat /\ copy' \in Nat
    BY <1>2, <1>3
  <2> QED BY <1>2, <2>1, <2>2 DEF LInv, StreamInv, LzssTypeOK, packVars
<1>8. StreamInv' /\ RoomAbove' = RoomAbove /\ LoadAreaInRam' = LoadAreaInRam
  BY <1>2, <1>7, BootKeepsStream DEF Booting
<1>9. RegistersInv'
  <2>1. t = tok' - 1
    BY <1>2
  <2>2. (StreamPosition(tok - 1))' = StreamPosition(t)
        /\ (OutputPosition(tok - 1))' = OutputPosition(t)
    BY <1>2, <2>1 DEF StreamPosition, OutputPosition, packVars
  <2>3. RegistersInv
    BY <1>2 DEF LInv, BootInv
  <2>4. /\ r1' >= loadAddress /\ copy' <= n
        /\ r1' + copy' = loadAddress + (to + n)
        /\ left' = len - (r1' - loadAddress)
    <3>1. r1 >= loadAddress
      BY <2>3 DEF RegistersInv
    <3>2. /\ r1' \in Nat /\ copy' \in Nat /\ left' \in Nat
      <4>1. r1 \in Nat /\ copy \in Nat /\ left \in Nat
        BY ONLY <1>3
      <4>2. /\ left > 0 /\ copy > 0
            /\ copy' = copy - 1 /\ r1' = r1 + 1 /\ left' = left - 1
        BY ONLY <1>2
      <4> QED BY ONLY <4>1, <4>2
    <3> QED BY ONLY <1>2, <1>3, <1>4, <3>1, <3>2
  <2>5. tok' <= Len(tokens) + 1 /\ tok' >= 2
    BY <1>2, <2>3 DEF RegistersInv
  <2>6. tokens' = tokens /\ loadAddress' = loadAddress /\ buffer' = buffer
        /\ data' = data /\ r0' = r0 /\ ~derailed' /\ pc' # "intro"
    BY <1>2, <1>4 DEF packVars
  <2>7. r0' = buffer' + (StreamPosition(tok - 1))'
    BY <1>4, <2>2, <2>6
  <2>8. r1' + copy' = loadAddress' + (OutputPosition(tok - 1))'
    BY <1>4, <2>2, <2>4, <2>6
  <2>9. left' = Len(data') - (r1' - loadAddress')
    BY <2>4, <2>6
  <2>10. copy' <= tokens'[tok' - 1].length
    BY <2>1, <2>4, <2>6
  <2> QED BY <2>4, <2>5, <2>6, <2>7, <2>8, <2>9, <2>10 DEF RegistersInv
<1>10. ASSUME RoomAbove PROVE Intact'
  <2>1. Holds(r0, size - (r0 - buffer), r0 - buffer)
    BY <1>2, <1>10 DEF LInv, BootInv, Intact
  <2>2. ASSUME NEW i \in 0..((size - (r0 - buffer)) - 1)
        PROVE  r0 + i \in Ram /\ mem'[r0 + i] = LzssByte((r0 - buffer) + i)
    <3>1. r0 + i \in Ram /\ mem[r0 + i] = LzssByte((r0 - buffer) + i)
      BY <2>1, <2>2 DEF Holds
    <3>2. r0 + i \in Int /\ r0 + i >= r0 /\ r0 + i <= r0 + (size - (r0 - buffer) - 1)
      BY <1>3, <2>2
    <3>3. r0 + i # r1
      BY <1>2, <1>10, <3>2, WritesBelow
    <3> QED BY <1>1, <3>1, <3>3
  <2> QED BY <1>2, <1>4, <2>2 DEF Intact, Holds, packVars
<1>11. BootInv'
  BY <1>2, <1>8, <1>9, <1>10 DEF BootInv
<1>12. ASSUME Kept
       PROVE  r1 \in Ram /\ b = data[r1 - loadAddress + 1]
  <2>1. RegistersInv /\ \A a \in loadAddress..(r1 - 1) : mem[a] = IntroByte(data[a - loadAddress + 1])
    BY <1>2, <1>12 DEF LInv, BootInv, OutputInv
  <2>2. r1 >= loadAddress /\ r1 <= loadAddress + len - 1
    <3>1. r1 >= loadAddress
      BY <2>1 DEF RegistersInv
    <3> QED BY ONLY <1>2, <1>3, <1>4, <3>1
  <2>3. \A a \in loadAddress..r1 : a \in Ram
    <3>1. \A a \in loadAddress..r1 : a \in loadAddress..(loadAddress + Len(data) - 1)
      BY <1>3, <1>4, <2>2
    <3> QED BY <1>12, <3>1 DEF Kept, LoadAreaInRam
  <2>4. r1 \in Ram
    BY <1>3, <2>2, <2>3
  <2>5. CASE offset = 0
    <3>1. r1 - loadAddress + 1 = to + 1
      BY ONLY <1>2, <1>3, <1>4, <2>5
    <3> QED BY <1>1, <2>4, <2>5, <3>1
  <2>6. CASE offset # 0
    <3> PICK i, c : i = n - copy + 1 /\ c = r1 - offset
      OBVIOUS
    <3>1. i \in 1..n /\ to + i = r1 - loadAddress + 1 /\ i \in Int
      BY ONLY <1>2, <1>3, <1>4, i = n - copy + 1
    <3>2. correct /\ offset > 0
      <4>1. correct
        BY <1>2 DEF LInv, StreamInv, PackInv
      <4> QED BY ONLY <1>4, <2>6, <4>1
    <3>3. offset <= to /\ data[to + i] = data[to + i - offset]
      BY <1>4, <3>1, <3>2 DEF LInv, StreamInv, ReferencesInv
    <3>4. c \in loadAddress..(r1 - 1) /\ c - loadAddress + 1 = to + i - offset
      BY ONLY <1>3, <1>4, <3>1, <3>2, <3>3, c = r1 - offset
    <3>5. mem[c] = IntroByte(data[c - loadAddress + 1]) /\ c \in Ram
      <4>1. c \in loadAddress..r1
        BY ONLY <1>3, <3>4
      <4> QED BY <2>1, <2>3, <3>4, <4>1
    <3>6. Read(c) = {data[c - loadAddress + 1]}
      BY <3>5 DEF Read, IntroByte
    <3>7. b = data[to + i]
      BY <1>1, <2>6, <3>3, <3>4, <3>6
    <3> QED BY <2>4, <3>1, <3>7
  <2> QED BY <2>5, <2>6
<1>13. OutputInv'
  <2> SUFFICES ASSUME Kept, NEW a \in loadAddress..r1
               PROVE  mem'[a] = IntroByte(data[a - loadAddress + 1])
    BY <1>2, <1>3, <1>8 DEF OutputInv, Kept, packVars
  <2>1. CASE a = r1
    BY <1>1, <1>12, <2>1
  <2>2. CASE a # r1
    <3>1. a \in loadAddress..(r1 - 1)
      BY <1>3, <2>2
    <3>2. mem[a] = IntroByte(data[a - loadAddress + 1])
      BY <1>2, <3>1 DEF LInv, OutputInv
    <3>3. a \in loadAddress..(loadAddress + Len(data) - 1)
      <4>1. a \in loadAddress..(loadAddress + len - 1)
        BY ONLY <1>2, <1>3, <1>4, <3>1
      <4> QED BY <4>1
    <3>4. a \in Ram
      BY <3>3 DEF Kept, LoadAreaInRam
    <3> QED BY <1>1, <2>2, <3>2, <3>4
  <2> QED BY <2>1, <2>2
<1> QED BY <1>8, <1>11, <1>13 DEF LInv

(* Only a stream that is damaged can derail the BIOS.                      *)
LEMMA WriteAnythingPreserves ==
  ASSUME LInv, WriteAnything
  PROVE  LInv'
<1>1. PICK b \in Bytes : mem' = [a \in Ram |-> IF a = r1 THEN IntroByte(b) ELSE mem[a]]
  BY DEF WriteAnything, WriteByte
<1>2. /\ UNCHANGED <<pc, packVars, r0, tok, copy, derailed>>
      /\ pc = "lz77_uncomp" /\ left > 0 /\ copy = 0 /\ derailed
      /\ r1' = r1 + 1 /\ left' = left - 1
  BY DEF WriteAnything, WriteByte
<1>3. /\ left \in Nat /\ r1 \in Nat /\ loadAddress \in Nat /\ b \in Nat
      /\ mem \in [Ram -> [kind : {"unwritten", "lzss", "intro"}, value : Nat]]
  BY LzssAssumption DEF LInv, StreamInv, LzssTypeOK
<1>4. RegistersInv /\ ~RoomAbove
  BY <1>2 DEF LInv, BootInv, Intact
<1>5. LzssTypeOK'
  <2>1. mem' \in [Ram -> [kind : {"unwritten", "lzss", "intro"}, value : Nat]]
    BY <1>1, <1>3 DEF IntroByte
  <2>2. r1' \in Nat /\ left' \in Nat
    BY <1>2, <1>3
  <2> QED BY <1>2, <2>1, <2>2 DEF LInv, StreamInv, LzssTypeOK, packVars
<1>6. StreamInv' /\ RoomAbove' = RoomAbove
  BY <1>2, <1>5, BootKeepsStream DEF Booting
<1>7. RegistersInv'
  <2>1. r1' >= loadAddress'
    BY <1>2, <1>3, <1>4 DEF RegistersInv, packVars
  <2> QED BY <1>2, <1>4, <2>1 DEF RegistersInv, packVars
<1>8. BootInv' /\ OutputInv'
  BY <1>2, <1>4, <1>6, <1>7 DEF BootInv, OutputInv, Kept
<1> QED BY <1>6, <1>8 DEF LInv

LEMMA BranchToEntryPreserves ==
  ASSUME LInv, BranchToEntry
  PROVE  LInv'
<1>1. /\ UNCHANGED <<packVars, bootVars>>
      /\ pc = "lz77_uncomp" /\ pc' = "intro" /\ left = 0
  BY DEF BranchToEntry
<1>2. LzssTypeOK'
  BY <1>1 DEF LInv, StreamInv, LzssTypeOK, Labels, packVars, bootVars
<1>3. StreamInv' /\ RoomAbove' = RoomAbove /\ LoadAreaInRam' = LoadAreaInRam
  BY <1>1, <1>2, BootKeepsStream DEF Booting
<1>4. (StreamPosition(tok - 1))' = StreamPosition(tok - 1)
      /\ (OutputPosition(tok - 1))' = OutputPosition(tok - 1)
  BY <1>1 DEF StreamPosition, OutputPosition, packVars, bootVars
<1>5. RegistersInv' /\ (RoomAbove' => Intact')
  BY <1>1, <1>3, <1>4
  DEF LInv, BootInv, RegistersInv, Intact, Holds, packVars, bootVars
<1>6. BootInv' /\ OutputInv'
  BY <1>1, <1>3, <1>5
  DEF LInv, BootInv, OutputInv, Kept, packVars, bootVars
<1> QED BY <1>3, <1>6 DEF LInv

LEMMA StepPreserves ==
  LInv /\ [Next]_lzssVars => LInv'
<1> SUFFICES ASSUME LInv, [Next]_lzssVars PROVE LInv'
  OBVIOUS
<1>1. CASE Pack
  BY <1>1, PackPreserves
<1>2. CASE Boot
  BY <1>2, CodeStartPreserves, LzssDecodePreserves, ReadTokenPreserves,
     CopyBytePreserves, WriteAnythingPreserves, BranchToEntryPreserves DEF Boot
<1>3. CASE UNCHANGED lzssVars
  <2>1. /\ StreamInv' = StreamInv /\ OutputInv' = OutputInv
    BY <1>3
    DEF StreamInv, LzssTypeOK, RoomInv, ParseInv, ReferencesInv, PackInv, Booting, StreamEnd,
        StreamPosition, OutputPosition, OutputInv, Kept, RoomAbove, LoadAreaInRam,
        lzssVars, packVars, bootVars
  <2>2. (StreamPosition(tok - 1))' = StreamPosition(tok - 1)
        /\ (OutputPosition(tok - 1))' = OutputPosition(tok - 1)
    BY <1>3 DEF StreamPosition, OutputPosition, lzssVars, packVars, bootVars
  <2>3. BootInv' = BootInv
    BY <1>3, <2>2
    DEF BootInv, RegistersInv, Intact, Holds, RoomAbove, lzssVars, packVars, bootVars
  <2> QED BY <2>1, <2>3 DEF LInv
<1> QED BY <1>1, <1>2, <1>3 DEF Next

-----------------------------------------------------------------------------
(* The inductive invariant: the positions of the parse in stream and       *)
(* output, what every byte of RAM holds, and the BIOS's registers agree.   *)
THEOREM LzssInvariance == Spec => []LInv
<1>1. Init => LInv
  BY InitEstablishes
<1>2. LInv /\ [Next]_lzssVars => LInv'
  BY StepPreserves
<1> QED BY <1>1, <1>2, PTL DEF Spec

(* Every variable keeps its type, and the BIOS is only ever given a buffer *)
(* that is word aligned.                                                   *)
THEOREM LzssTypeCorrect == Spec => []LzssTypeOK
<1>1. LInv => LzssTypeOK
  BY DEF LInv, StreamInv
<1> QED BY <1>1, LzssInvariance, PTL

(* The stream behind the token that LZ77UnComp reads is never overwritten, *)
(* given RoomAbove: for every parse, intro and memory layout.              *)
THEOREM SourceSafe == Spec => []SourceIntact
<1>1. LInv => SourceIntact
  BY DEF LInv, BootInv, Intact, SourceIntact
<1> QED BY <1>1, LzssInvariance, PTL

-----------------------------------------------------------------------------
(* What the refinement mapping makes of a state.                           *)
StatusBar ==
  CASE Kept /\ pc \in {"code_start", "lzss_decode", "lz77_uncomp"} -> "unpacking"
    [] Kept /\ pc = "intro" -> "running"
    [] OTHER -> "packing"

OutBar == IF Kept THEN Unpacked ELSE << >>

LEMMA NothingUnpacked ==
  ASSUME pc \notin {"lz77_uncomp", "intro"}
  PROVE  OutBar = << >>
<1>1. Unpacked = [i \in 1..0 |-> mem[loadAddress + i - 1].value]
  BY DEF Unpacked
<1>2. 1..0 = {}
  OBVIOUS
<1>3. Unpacked = << >>
  BY <1>1, <1>2
<1> QED BY <1>3 DEF OutBar

(* While the BIOS works, the output is a prefix of the intro.              *)
LEMMA OutputIsPrefix ==
  ASSUME LInv, Kept, pc \in {"lz77_uncomp", "intro"}
  PROVE  /\ r1 - loadAddress \in 0..Len(data)
         /\ OutBar = [i \in 1..(r1 - loadAddress) |-> data[i]]
         /\ left = Len(data) - (r1 - loadAddress)
<1> PICK m, len : m = r1 - loadAddress /\ len = Len(data)
  OBVIOUS
<1>1. r1 \in Nat /\ loadAddress \in Nat /\ left \in Nat /\ len \in Nat
  BY PositionsAreNumbers, LzssAssumption DEF LInv, StreamInv, LzssTypeOK
<1>2. RegistersInv /\ ~derailed
  BY DEF LInv, BootInv, Kept, Intact
<1>3. r1 >= loadAddress /\ left = len - (r1 - loadAddress)
  BY <1>2 DEF RegistersInv
<1>4. m \in 0..len
  BY ONLY <1>1, <1>3, m = r1 - loadAddress
<1>5. ASSUME NEW i \in 1..m
      PROVE  mem[loadAddress + i - 1].value = data[i]
  <2>1. /\ loadAddress + i - 1 \in loadAddress..(r1 - 1)
        /\ (loadAddress + i - 1) - loadAddress + 1 = i
    BY ONLY <1>1, <1>5, m = r1 - loadAddress
  <2>2. mem[loadAddress + i - 1] = IntroByte(data[(loadAddress + i - 1) - loadAddress + 1])
    BY <2>1 DEF LInv, OutputInv
  <2> QED BY <2>1, <2>2 DEF IntroByte
<1>6. OutBar = [i \in 1..m |-> mem[loadAddress + i - 1].value]
  BY DEF OutBar, Unpacked
<1>7. OutBar = [i \in 1..m |-> data[i]]
  BY <1>5, <1>6
<1> QED BY <1>3, <1>4, <1>7

LEMMA PrefixGrows ==
  ASSUME NEW S, NEW s \in Seq(S), NEW m \in Nat, m < Len(s)
  PROVE  /\ Len([i \in 1..m |-> s[i]]) = m
         /\ [i \in 1..(m + 1) |-> s[i]] = Append([i \in 1..m |-> s[i]], s[m + 1])
<1> DEFINE p == [i \in 1..m |-> s[i]]
           q == [i \in 1..(m + 1) |-> s[i]]
<1>1. p \in Seq(S) /\ Len(p) = m
  <2>1. \A i \in 1..m : s[i] \in S
    BY ElementOfSeq
  <2> QED BY <2>1
<1>2. q \in Seq(S) /\ Len(q) = m + 1
  <2>1. \A i \in 1..(m + 1) : s[i] \in S
    BY ElementOfSeq
  <2> QED BY <2>1
<1>3. s[m + 1] \in S
  BY ElementOfSeq
<1>4. /\ Append(p, s[m + 1]) \in Seq(S) /\ Len(Append(p, s[m + 1])) = m + 1
      /\ \A i \in 1..m : Append(p, s[m + 1])[i] = p[i]
      /\ Append(p, s[m + 1])[m + 1] = s[m + 1]
  <2> HIDE DEF p
  <2> QED BY <1>1, <1>3, AppendProperties
<1>5. \A i \in 1..(m + 1) : Append(p, s[m + 1])[i] = q[i]
  BY <1>4
<1>6. Append(p, s[m + 1]) = q
  <2> HIDE DEF p, q
  <2> QED BY <1>2, <1>4, <1>5, SeqEqual
<1> QED BY <1>1, <1>6

LEMMA WholePrefix ==
  ASSUME NEW S, NEW s \in Seq(S)
  PROVE  [i \in 1..Len(s) |-> s[i]] = s
  BY LenProperties

LEMMA PackSimulates ==
  ASSUME LInv, Pack
  PROVE  Promise!Next
<1>1. /\ pc \in {"lzss_compress", "huffman_compress", "assemble_cartridge"}
      /\ pc' \in {"lzss_compress", "huffman_compress", "assemble_cartridge", "code_start", "thrown"}
  BY DEF Pack, EncodeLiteral, EncodeReference, Emit, LzssCompress, HuffmanCompress,
         AssembleCartridge
<1>2. data \in Seq(Bytes) /\ data' \in Seq(Bytes)
  <2>1. LInv'
    BY PackPreserves
  <2> QED BY <2>1 DEF LInv, StreamInv, LzssTypeOK
<1>3. Len(data') >= Len(data) /\ SubSeq(data', 1, Len(data)) = data
  <2>1. CASE data' = data
    BY <1>2, <2>1, LenProperties, SubSeqFull
  <2>2. ASSUME NEW bytes \in Seq(Bytes), data' = data \o bytes
        PROVE  Len(data') >= Len(data) /\ SubSeq(data', 1, Len(data)) = data
    <3>1. Len(data') = Len(data) + Len(bytes) /\ Len(data) \in Nat /\ Len(bytes) \in Nat
      BY <1>2, <2>2, ConcatProperties, LenProperties
    <3>2. CASE Len(data) = 0
      <4>1. data = << >> /\ SubSeq(data', 1, 0) = << >>
        BY <1>2, <3>2, EmptySeq, SubSeqEmpty
      <4> QED BY <3>1, <3>2, <4>1
    <3>3. CASE Len(data) # 0
      <4>1. 1 \in 1..Len(data) /\ Len(data) \in 1..Len(data)
        BY <3>1, <3>3
      <4>2. SubSeq(data \o bytes, 1, Len(data)) = SubSeq(data, 1, Len(data))
        BY <1>2, <4>1, SubSeqOfConcat1
      <4> QED BY <1>2, <2>2, <3>1, <4>2, SubSeqFull
    <3> QED BY <3>2, <3>3
  <2>3. data' = data \/ \E bytes \in Seq(Bytes) : data' = data \o bytes
    <3>1. CASE EncodeLiteral
      <4>1. PICK b \in Bytes : Emit(0, <<b>>)
        BY <3>1 DEF EncodeLiteral
      <4>2. <<b>> \in Seq(Bytes)
        OBVIOUS
      <4> QED BY <4>1, <4>2 DEF Emit
    <3>2. CASE EncodeReference
      <4>1. PICK offset \in 1..Len(data), length \in MinLength..MaxLength :
              \E bytes \in [1..length -> Bytes] : Emit(offset, bytes)
        BY <3>2 DEF EncodeReference
      <4>3. PICK bytes \in [1..length -> Bytes] : Emit(offset, bytes)
        BY <4>1
      <4>2. bytes \in Seq(Bytes)
        BY BytesAreSequence, LzssAssumption
      <4> QED BY <4>2, <4>3 DEF Emit
    <3>3. CASE (\E p \in Paddings : LzssCompress(p)) \/ HuffmanCompress \/ AssembleCartridge
      BY <3>3 DEF LzssCompress, HuffmanCompress, AssembleCartridge, packVars
    <3> QED BY <3>1, <3>2, <3>3 DEF Pack
  <2> QED BY <2>1, <2>2, <2>3
<1>4. OutBar = << >> /\ OutBar' = << >>
  BY <1>1, NothingUnpacked DEF OutBar, Unpacked
<1>5. StatusBar = "packing" /\ StatusBar' \in {"packing", "unpacking"}
  BY <1>1 DEF StatusBar
<1> QED BY <1>3, <1>4, <1>5 DEF Promise!Next, Promise!Pack, StatusBar, OutBar

LEMMA BootSimulates ==
  ASSUME LInv, Boot
  PROVE  Promise!Next \/ UNCHANGED Promise!vars
<1>1. LInv'
  BY StepPreserves DEF Next
<1>2. /\ UNCHANGED packVars
      /\ Kept' = Kept
  BY DEF Boot, CodeStart, LzssDecode, Lz77Uncomp, ReadToken, CopyByte, WriteAnything,
         BranchToEntry, Kept, RoomAbove, LoadAreaInRam, packVars
<1>3. CASE ~Kept
  BY <1>2, <1>3 DEF Promise!vars, packVars
<1>4. CASE Kept /\ (CodeStart \/ LzssDecode)
  <2>1. /\ pc \in {"code_start", "lzss_decode"} /\ pc' \in {"lzss_decode", "lz77_uncomp"}
        /\ pc' = "lz77_uncomp" => r1' = loadAddress
    BY <1>4 DEF CodeStart, LzssDecode, Lz77Uncomp
  <2>2. OutBar = << >>
    BY <2>1, NothingUnpacked
  <2>3. OutBar' = << >>
    <3>1. CASE pc' = "lzss_decode"
      BY <3>1 DEF OutBar, Unpacked
    <3>2. CASE pc' = "lz77_uncomp"
      <4>1. r1' - loadAddress' = 0
        BY <1>2, <2>1, <3>2, LzssAssumption DEF packVars, LInv, StreamInv, LzssTypeOK
      <4> QED BY <3>2, <4>1 DEF OutBar, Unpacked
    <3> QED BY <2>1, <3>1, <3>2
  <2>4. StatusBar' = StatusBar
    BY <1>2, <1>4, <2>1 DEF StatusBar
  <2> QED BY <1>2, <2>2, <2>3, <2>4 DEF Promise!vars, StatusBar, OutBar, packVars
<1>5. CASE Kept /\ ReadToken
  BY <1>2, <1>5 DEF ReadToken, Promise!vars, Unpacked, packVars
<1>6. CASE Kept /\ WriteAnything
  BY <1>6 DEF WriteAnything, LInv, BootInv, Intact, Kept
<1>7. CASE Kept /\ CopyByte
  <2>1. /\ pc = "lz77_uncomp" /\ pc' = "lz77_uncomp" /\ left > 0
        /\ r1' = r1 + 1 /\ left' = left - 1
    BY <1>7 DEF CopyByte, WriteByte
  <2> PICK m : m = r1 - loadAddress
    OBVIOUS
  <2>2. /\ m \in 0..Len(data) /\ OutBar = [i \in 1..m |-> data[i]]
        /\ left = Len(data) - m
    BY <1>7, <2>1, OutputIsPrefix
  <2>3. Len(data) \in Nat /\ r1 \in Nat /\ loadAddress \in Nat /\ data \in Seq(Bytes)
    BY PositionsAreNumbers, LzssAssumption DEF LInv, StreamInv, LzssTypeOK
  <2>4. m \in Nat /\ m < Len(data)
    BY ONLY <2>1, <2>2, <2>3
  <2>5. OutBar' = [i \in 1..(m + 1) |-> data[i]]
    <3>1. loadAddress' = loadAddress /\ data' = data /\ Kept' /\ pc' = "lz77_uncomp"
      BY <1>2, <1>7, <2>1 DEF packVars
    <3>2. r1' - loadAddress = m + 1
      BY ONLY <2>1, <2>3, m = r1 - loadAddress
    <3>3. ASSUME NEW i \in 1..(m + 1)
          PROVE  mem'[loadAddress + i - 1].value = data[i]
      <4>1. /\ loadAddress + i - 1 \in loadAddress..(r1' - 1)
            /\ (loadAddress + i - 1) - loadAddress + 1 = i
        BY ONLY <2>1, <2>3, <2>4, <3>2, <3>3
      <4>2. mem'[loadAddress + i - 1]
              = IntroByte(data[(loadAddress + i - 1) - loadAddress + 1])
        BY <1>1, <3>1, <4>1 DEF LInv, OutputInv
      <4> QED BY <4>1, <4>2 DEF IntroByte
    <3>4. OutBar' = [i \in 1..(m + 1) |-> mem'[loadAddress + i - 1].value]
      BY <3>1, <3>2 DEF OutBar, Unpacked
    <3> QED BY <3>3, <3>4
  <2>6. /\ Len(OutBar) = m /\ OutBar' = Append(OutBar, data[m + 1])
    BY <2>2, <2>3, <2>4, <2>5, PrefixGrows
  <2>7. StatusBar = "unpacking" /\ StatusBar' = "unpacking"
    BY <1>2, <1>7, <2>1 DEF StatusBar
  <2>8. Len(OutBar) < Len(data) /\ OutBar' = Append(OutBar, data[Len(OutBar) + 1])
    BY <2>4, <2>6
  <2> QED BY <1>2, <2>7, <2>8 DEF Promise!Next, Promise!Unpack, StatusBar, OutBar, packVars
<1>8. CASE Kept /\ BranchToEntry
  <2>1. /\ pc = "lz77_uncomp" /\ pc' = "intro" /\ left = 0
        /\ UNCHANGED <<packVars, bootVars>>
    BY <1>8 DEF BranchToEntry
  <2>2. data \in Seq(Bytes) /\ Len(data) \in Nat
    BY PositionsAreNumbers DEF LInv, StreamInv, LzssTypeOK
  <2>3. OutBar = [i \in 1..Len(data) |-> data[i]]
    <3> PICK m : m = r1 - loadAddress
      OBVIOUS
    <3>1. /\ m \in 0..Len(data) /\ OutBar = [i \in 1..m |-> data[i]]
          /\ left = Len(data) - m
      BY <1>8, <2>1, OutputIsPrefix
    <3>2. m = Len(data)
      BY ONLY <2>1, <2>2, <3>1
    <3> QED BY <3>1, <3>2
  <2>4. OutBar = data
    BY <2>2, <2>3, WholePrefix
  <2>5. OutBar' = OutBar
    BY <1>2, <2>1 DEF OutBar, Unpacked, packVars, bootVars
  <2>6. StatusBar = "unpacking" /\ StatusBar' = "running"
    BY <1>2, <1>8, <2>1 DEF StatusBar
  <2> QED BY <1>2, <2>4, <2>5, <2>6 DEF Promise!Next, Promise!Run, StatusBar, OutBar, packVars
<1> QED BY <1>3, <1>4, <1>5, <1>6, <1>7, <1>8 DEF Boot

(* Every step of packer and cartridge is a step of Decompression, or none: *)
(* the cartridge unpacks the intro's bytes in order and starts it once     *)
(* they are complete, whenever there is RoomAbove.                         *)
THEOREM LzssKeepsPromise == Spec => KeepsPromiseSafely
<1>1. Init => Promise!Init
  <2> SUFFICES ASSUME Init PROVE Promise!Init
    OBVIOUS
  <2>1. pc = "lzss_compress" /\ data = << >>
    BY DEF Init
  <2>2. OutBar = << >> /\ StatusBar = "packing"
    BY <2>1, NothingUnpacked DEF StatusBar
  <2> QED BY <2>1, <2>2 DEF Promise!Init, StatusBar, OutBar
<1>2. LInv /\ [Next]_lzssVars => [Promise!Next]_Promise!vars
  <2> SUFFICES ASSUME LInv, [Next]_lzssVars PROVE [Promise!Next]_Promise!vars
    OBVIOUS
  <2>1. CASE Next
    BY <2>1, PackSimulates, BootSimulates DEF Next
  <2>2. CASE UNCHANGED lzssVars
    BY <2>2 DEF Promise!vars, Unpacked, Kept, RoomAbove, LoadAreaInRam, lzssVars, packVars, bootVars
  <2> QED BY <2>1, <2>2
<1> QED BY <1>1, <1>2, LzssInvariance, PTL DEF Spec, KeepsPromiseSafely
=============================================================================
