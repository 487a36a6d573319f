----------------------------- MODULE LzssDepacker -----------------------------
(***************************************************************************)
(* The LZSS packer, from lzss_compress to the jump to the intro.  agbpack's *)
(* encoder and the two BIOS functions are external: the encoder chooses    *)
(* any parse of the intro, and the BIOS follows the stream token by token. *)
(* The stream is kept at the end of EWRAM while the intro is unpacked,     *)
(* possibly over it, and no code checks that the two stay apart.           *)
(***************************************************************************)
EXTENDS Integers, Sequences

CONSTANTS
  Bytes,          \* values of the intro's bytes
  TokensPerFlag,  \* tokens that share a flag byte (8)
  MinLength,      \* lengths of a reference (3 and 18)
  MaxLength,
  HeaderSize,     \* of an LZSS stream: type and length of the data
  Paddings,       \* bytes that the encoder may append to the stream
  EwramStart, EwramSize,
  IwramStart, IwramSize,
  LoadAddresses,  \* values of input_file.load_address()
  Clobbered,      \* values that a BIOS function may leave in r0 and r1
  MaxData         \* bound: bytes of the intro

EwramEnd == EwramStart + EwramSize
Ram == EwramStart..(EwramEnd - 1) \cup IwramStart..(IwramStart + IwramSize - 1)

ASSUME LzssAssumption ==
  /\ Bytes \subseteq Nat
  /\ TokensPerFlag \in Nat \ {0}
  /\ MinLength \in Nat /\ MaxLength \in Nat
  /\ 2 <= MinLength
  /\ HeaderSize \in Nat
  /\ Paddings \subseteq Nat
  /\ EwramStart \in Nat /\ EwramSize \in Nat
  /\ IwramStart \in Nat /\ IwramSize \in Nat
  /\ EwramEnd <= IwramStart
  /\ LoadAddresses \subseteq Nat
  /\ Clobbered \subseteq Nat
  /\ MaxData \in Nat

VARIABLES
  pc,
  loadAddress,
  data,       \* the intro
  tokens,     \* its parse, and where each token starts in stream and output
  size,       \* lzss_data.size()
  flags,      \* number of flag bytes in the stream
  padding,    \* number of bytes behind its last token
  correct,    \* does the stream decode to the intro?
  buffer,     \* lzss_depack_buffer, as assembled into the cartridge
  mem,        \* what every byte of RAM holds
  r0, r1,     \* source and destination of the BIOS functions
  tok, copy,  \* LZ77UnComp: its next token, bytes to come of the last one
  left,       \* and of the intro
  derailed    \* it has taken other bytes for a part of the stream

packVars == <<loadAddress, data, tokens, size, flags, padding, correct, buffer>>
bootVars == <<mem, r0, r1, tok, copy, left, derailed>>
lzssVars == <<pc, packVars, bootVars>>

\* A byte of RAM: not written yet, the stream's byte number n, or an intro's.
Unwritten == [kind |-> "unwritten", value |-> 0]
LzssByte(n) == [kind |-> "lzss", value |-> n]
IntroByte(b) == [kind |-> "intro", value |-> b]

Labels == {"lzss_compress", "huffman_compress", "assemble_cartridge",
           "code_start", "lzss_decode", "lz77_uncomp", "intro", "thrown"}

-----------------------------------------------------------------------------
Init ==
  /\ pc = "lzss_compress"
  /\ loadAddress \in LoadAddresses
  /\ data = << >> /\ tokens = << >>
  /\ size = HeaderSize /\ flags = 0 /\ padding = 0
  /\ correct = TRUE
  /\ buffer = 0
  /\ mem = [a \in Ram |-> Unwritten]
  /\ r0 = 0 /\ r1 = 0
  /\ tok = 1 /\ copy = 0 /\ left = 0
  /\ derailed = FALSE

\* optimal_lzss_encoder: the next bytes of the intro become a token, behind a
\* flag byte if it is the first of its group.
Emit(offset, bytes) ==
  LET flag == IF Len(tokens) % TokensPerFlag = 0 THEN 1 ELSE 0 IN
  /\ pc = "lzss_compress"
  /\ Len(data) + Len(bytes) <= MaxData
  /\ data' = data \o bytes
  /\ tokens' = Append(tokens, [offset |-> offset, length |-> Len(bytes),
                               start |-> size, to |-> Len(data)])
  /\ size' = size + flag + (IF offset = 0 THEN 1 ELSE 2)
  /\ flags' = flags + flag
  /\ UNCHANGED <<pc, loadAddress, padding, buffer, bootVars>>

EncodeLiteral == \E b \in Bytes : Emit(0, <<b>>) /\ UNCHANGED correct

\* A reference; vram_safe(false) allows an offset of 1.  It means the bytes
\* `offset` back, its own first ones included; a faulty encoder may refer to
\* bytes that are not those of the intro.
EncodeReference ==
  \E offset \in 1..Len(data), length \in MinLength..MaxLength :
    \E bytes \in [1..length -> Bytes] :
      /\ Emit(offset, bytes)
      /\ correct' = (correct /\ \A i \in 1..length :
                                 bytes[i] = (data \o bytes)[Len(data) + i - offset])

\* lzss_compress: the end of the stream, and its verification
LzssCompress(p) ==
  /\ pc = "lzss_compress" /\ data # << >>
  /\ padding' = p
  /\ size' = size + p
  /\ pc' = IF correct THEN "huffman_compress" ELSE "thrown"
  /\ UNCHANGED <<loadAddress, data, tokens, flags, correct, buffer, bootVars>>

\* huffman_compress: its result decodes to the stream, or it throws
HuffmanCompress ==
  /\ pc = "huffman_compress"
  /\ pc' \in {"assemble_cartridge", "thrown"}
  /\ UNCHANGED <<packVars, bootVars>>

\* Mutant: the buffer is as large as the intro.
AssembleCartridgeDataSize ==
  /\ pc = "assemble_cartridge"
  /\ buffer' = EwramEnd - Len(data)
  /\ pc' = "code_start"
  /\ UNCHANGED <<loadAddress, data, tokens, size, flags, padding, correct, bootVars>>

\* Mutant: an unaligned buffer is accepted.
AssembleCartridgeUnaligned ==
  /\ pc = "assemble_cartridge"
  /\ buffer' = EwramEnd - size
  /\ pc' = "code_start"
  /\ UNCHANGED <<loadAddress, data, tokens, size, flags, padding, correct, bootVars>>

AssembleCartridge ==
  /\ pc = "assemble_cartridge"
  /\ buffer' = EwramEnd - size
  /\ pc' = IF buffer' % 4 = 0 THEN "code_start" ELSE "thrown"
  /\ UNCHANGED <<loadAddress, data, tokens, size, flags, padding, correct, bootVars>>

-----------------------------------------------------------------------------
(* The cartridge.  What is written outside RAM is lost.                    *)

\* adr r0, packed_intro; ldr r1, lzss_depack_buffer; swi swi_huff_uncomp
CodeStart ==
  /\ pc = "code_start"
  /\ mem' = [a \in Ram |-> IF a \in buffer..(buffer + size - 1)
                             THEN LzssByte(a - buffer) ELSE mem[a]]
  /\ r0' \in Clobbered /\ r1' \in Clobbered
  /\ pc' = "lzss_decode"
  /\ UNCHANGED <<packVars, tok, copy, left, derailed>>

\* RAM holds the n bytes of the stream from byte number `start` on at r0.
Holds(address, n, start) ==
  \A i \in 0..(n - 1) :
    address + i \in Ram /\ mem[address + i] = LzssByte(start + i)

\* LZ77UnComp reads the length of the data from the header of the stream.
Lz77Uncomp(source) ==
  /\ pc = "lzss_decode"
  /\ r0' = source + HeaderSize
  /\ r1' = loadAddress
  /\ IF Holds(source, HeaderSize, 0)
       THEN left' = Len(data) /\ UNCHANGED derailed
       ELSE left' \in 1..MaxData /\ derailed' = TRUE
  /\ pc' = "lz77_uncomp"
  /\ UNCHANGED <<packVars, mem, tok, copy>>

\* Mutant: r0 is taken to hold the buffer still.
LzssDecodeKeepsR0 == Lz77Uncomp(r0)

\* ldr r0, lzss_depack_buffer; ldr r1, load_address; swi swi_lz77_uncomp_wram
LzssDecode == Lz77Uncomp(buffer)

\* Where the token that follows the first k ones starts.
StreamPosition(k) ==
  IF k < Len(tokens) THEN tokens[k + 1].start ELSE size - padding

\* The BIOS reads a token, with the flag byte that may precede it.
ReadToken ==
  /\ pc = "lz77_uncomp" /\ left > 0 /\ copy = 0 /\ ~derailed
  /\ LET start == StreamPosition(tok - 1)
         width == StreamPosition(tok) - start
     IN  IF Holds(r0, width, start)
           THEN /\ r0' = r0 + width
                /\ copy' = tokens[tok].length
                /\ tok' = tok + 1
                /\ UNCHANGED derailed
           ELSE derailed' = TRUE /\ UNCHANGED <<r0, tok, copy>>
  /\ UNCHANGED <<pc, packVars, mem, r1, left>>

WriteByte(b) ==
  /\ mem' = [a \in Ram |-> IF a = r1 THEN IntroByte(b) ELSE mem[a]]
  /\ r1' = r1 + 1
  /\ left' = left - 1

\* What a reference reads at an address: an unpacked byte, or any byte.
Read(address) ==
  IF address \in Ram /\ mem[address].kind = "intro" THEN {mem[address].value} ELSE Bytes

\* It writes a byte of its last token: a literal's, or one of a reference.
CopyByte ==
  /\ pc = "lz77_uncomp" /\ left > 0 /\ copy > 0
  /\ LET token == tokens[tok - 1]
     IN  \E b \in IF token.offset = 0 THEN {data[token.to + 1]} ELSE Read(r1 - token.offset) :
           WriteByte(b)
  /\ copy' = copy - 1
  /\ UNCHANGED <<pc, packVars, r0, tok, derailed>>

\* Once it has taken other bytes for tokens, it may write anything.
WriteAnything ==
  /\ pc = "lz77_uncomp" /\ left > 0 /\ copy = 0 /\ derailed
  /\ \E b \in Bytes : WriteByte(b)
  /\ UNCHANGED <<pc, packVars, r0, tok, copy, derailed>>

\* ldr r0, entry; bx r0
BranchToEntry ==
  /\ pc = "lz77_uncomp" /\ left = 0
  /\ pc' = "intro"
  /\ UNCHANGED <<packVars, bootVars>>

Pack ==
  \/ EncodeLiteral
  \/ EncodeReference
  \/ \E p \in Paddings : LzssCompress(p)
  \/ HuffmanCompress
  \/ AssembleCartridge

Boot ==
  \/ CodeStart
  \/ LzssDecode
  \/ ReadToken
  \/ CopyByte
  \/ WriteAnything
  \/ BranchToEntry

Next == Pack \/ Boot

\* The CPU goes on executing the code in the cartridge.
Spec == Init /\ [][Next]_lzssVars /\ WF_lzssVars(Boot)

-----------------------------------------------------------------------------
\* Type invariant; the BIOS is given a word aligned buffer only.
LzssTypeOK ==
  /\ pc \in Labels
  /\ loadAddress \in LoadAddresses
  /\ data \in Seq(Bytes)
  /\ tokens \in Seq([offset : Nat, length : Nat, start : Nat, to : Nat])
  /\ size \in Nat /\ flags \in Nat /\ padding \in Nat
  /\ correct \in BOOLEAN
  /\ buffer \in Int
  /\ pc \in {"code_start", "lzss_decode", "lz77_uncomp", "intro"} => buffer % 4 = 0
  /\ mem \in [Ram -> [kind : {"unwritten", "lzss", "intro"}, value : Nat]]
  /\ r0 \in Int /\ r1 \in Nat
  /\ tok \in Nat \ {0} /\ copy \in Nat
  /\ left \in Nat
  /\ derailed \in BOOLEAN

\* The load area is in RAM, as README.md and TODO.md ask for.
LoadAreaInRam ==
  loadAddress..(loadAddress + Len(data) - 1) \subseteq Ram

\* What it takes for the intro not to run over the stream: in IWRAM nothing,
\* in EWRAM as many bytes above it as the stream has padding and flag bytes
\* but the first.  The two may well overlap.
RoomAbove ==
  /\ size <= EwramSize
  /\ \/ EwramEnd <= loadAddress
     \/ loadAddress + Len(data) + flags - 1 + padding <= EwramEnd

\* With that room, what LZ77UnComp has not read yet is never overwritten, for
\* no parse of the intro: of every token at least as many bytes come out as
\* go in, its flag bit apart.
SourceIntact ==
  pc = "lz77_uncomp" /\ RoomAbove =>
    /\ ~derailed
    /\ Holds(r0, size - (r0 - buffer), r0 - buffer)

\* The bytes of the load area that have been written.
Unpacked ==
  [i \in 1..(IF pc \in {"lz77_uncomp", "intro"} THEN r1 - loadAddress ELSE 0) |->
     mem[loadAddress + i - 1].value]

Kept == LoadAreaInRam /\ RoomAbove

Promise ==
  INSTANCE Decompression WITH
    status <- CASE Kept /\ pc \in {"code_start", "lzss_decode", "lz77_uncomp"} -> "unpacking"
                [] Kept /\ pc = "intro" -> "running"
                [] OTHER -> "packing",
    original <- data,
    out <- IF Kept THEN Unpacked ELSE << >>

\* With that room, the cartridge keeps what Decompression promises, although
\* the encoder may be faulty and the BIOS does not preserve r0 and r1.
KeepsPromise == Promise!Spec

\* The part of it that does not depend on fairness.
KeepsPromiseSafely == Promise!Init /\ [][Promise!Next]_Promise!vars

\* README.md: "Your intro's load address should be in IWRAM or EWRAM", and
\* TODO.md: "Max. size in EWRAM is 256K, if loaded at beginning of EWRAM".
RamSuffices == pc = "intro" /\ LoadAreaInRam => Unpacked = data
=============================================================================
