# Verification of shrinkler-gba

shrinkler-gba packs an intro, an ELF executable for the Gameboy Advance, into a
cartridge image that unpacks and starts it. This directory holds TLA+ models of
the packer and of the Thumb code it emits, the TLC runs that check them on small
instances, and TLAPS proofs of what matters most for all instances.

All line numbers refer to `src/shrinkler_gba/` unless another path is given.

## Inventory

| Part | State | Operations | Interacts with | Correct when |
|---|---|---|---|---|
| Shrinkler depacker, emitted by `shrinkler_packer.cpp` 156-399 | ARM registers, stack (saved frames, 2048 context probabilities), unpacked bytes | reset code, literal, reference, repeated offset, number, end | calls `getbit`; reads the stream of libshrinkler's encoder; jumps to the intro | it stores the intro's bytes in order, ends with the stream, touches no stack but its own, restores sp |
| Range decoder `getbit`, 193-274 | `rvalue`, `isize`, `bitbuf`, `inp`, a probability per context | decode one bit | called by the depacker from two stack depths; inverse of libshrinkler's range coder | no register overflows, each call returns, the encoder's bits come out |
| libshrinkler encoder (external) | parse of the intro, probabilities, interval | encode | its stream is all the depacker sees | - |
| ELF input, `input_file.cpp`, `pack.cpp` 45-92 | `m_data`, `m_load_address`, `m_entry` | check header, choose sections, sort, pad, append | ELFIO (external) delivers sections; the packers take the data | the data is the memory image the file describes |
| Header checksum, `complement.cpp`, `cartridge_assembler.cpp` 71-113 | the header bytes | set a byte to balance the sum, check the sum | called by both packers when a cartridge has been assembled | its own check and the BIOS accept what it arranged |
| Pipeline, `pack.cpp`, `packer.cpp`, `../shrinkler_gba_console/main.cpp` | options, cartridges made so far, the output file | load, pack, pad, choose, write, remove, exit | calls the packers, the file system | the smallest ROM of the packers asked for is written whole, or the program says it was not |
| Command line, `command_line.cpp`, `options.cppm` | `options` | one handler per option | argpppp (external); main | the last option counts |
| Cartridge layout, both packers and `cartridge_assembler.cpp` | location counter | emit, check the location counter | lzasm (external) | header fields fall on bytes that may be changed, the rest of the header on its fixed values |
| LZSS packer, `lzss_packer.cpp` | the buffer address, two compressed forms | compress, verify, assemble | agbpack (external), two BIOS calls | the stream is not overwritten before it is read, and the intro comes out |
| Debug checks, `shrinkler_packer.cpp` 401-569, `utility.cpp` | two checksum accumulators | size, adler32, sp checks, panic | the depacker's exit | they do not fire without a fault, and no damaged intro is started |
| Console, table printer, ELF info | output streams | formatting | - | - |

The packer runs in one thread, from front to back; the GBA executes nothing but
the depacker. There is no concurrency, and nothing is persisted but the output
file. What is hard is elsewhere:

* *Two programs that never meet.* The encoder runs on a PC and names contexts by
  numbers; the depacker addresses halfwords on its stack, at two call depths. Any
  disagreement trains the wrong probability and shows up many bits later.
* *Borrowed registers.* `getnumber` and `getbit` borrow `outp`, and the frames they
  push move the base of the context table.
* *Arithmetic at its limits*: 16-bit intervals, adaptive probabilities that have to
  stay clear of both ends, a sentinel bit, a copy loop that tests after it
  decrements, a checksum that is balanced through another byte than its own.
* *Memory that nobody divides up.* The intro is unpacked upwards into the RAM that
  also holds the context table and the stack, or the LZSS stream it is decoded from.
* *Code laid out by hand*: instructions have to fall on given bytes of the header, for
  every combination of packer and option.
* *Failures in the middle*: a packer that throws, a write that fails half way, a
  flush that fails unnoticed, a file that cannot be removed.

`PROJECT.json` lists every component, and each hazard at its line.

## Modules

```
Decompression                       what an unpacking cartridge promises (abstract)
  ^ refined by
ShrinklerRoundTrip  = ShrinklerDepacker + ShrinklerEncoder (external)
  ^ and by
LzssDepacker                        the LZSS packer, its cartridge and the BIOS
ShrinklerMemory     = ShrinklerDepacker with stack and intro in one memory
BitChannel                          bits come out as they went in (abstract)
  ^ refined by
RangeCoderRoundTrip = RangeDecoder + libshrinkler's range coder (external)
InputFile                           from the section table to the packed bytes
CartridgeAssembler  = HeaderChecksum + the order in which the header is emitted
HeaderChecksum                      the header's complement
DebugChecks                         adler32 on both sides, size and sp
PackPipeline                        main, pack, write_to_disk
Powers                              powers of two, for both encoders (external)
Numbers                             induction, powers and quotients, for the proofs
*Proofs                             theorems: ShrinklerProofs of the depacker, its memory and
                                    its round trip, RangeDecoderProofs of both range coder
                                    modules, CartridgeProofs of header and assembler, the
                                    others of the module they are named after
MC*                                 instances for TLC
```

**ShrinklerDepacker.** One action per stretch of emitted code between two labels;
the action has the label's name (`Getlit`, `Switch`, `Repeat`, `Readlength`,
`Copyloop`, `Readoffset`, `Numberloop`, `Bitsloop`, ...). `length_read` and
`offset_read` are the return addresses of the two calls of `getnumber`. The
registers keep their names. `getbit` is one step that returns either bit, so the
model runs under *every* bit stream; what is kept of it is the halfword it accesses,
computed from `sp` as the code does, with both push lists. Memory is a function from
addresses to stored bytes; a byte that was never stored may have any value, and so
may `offset` (r8) at reset. The context table itself is not written to: which bits come
out is `RangeDecoder`'s affair. Registers hold `RegisterBits` bits: the number that
`bitsloop` shifts together loses its leading one in time, and differences wrap.
`numberloop` has no limit, so its index may outgrow the group; `Bitctx` is then what
`orr` makes of it. Once an access misses the table (`Astray`) the depacker has overwritten
memory that is not its own, and the model ends. The table and the
unpacked bytes are kept in separate functions, so an intro that is loaded on top of
the context table is left to `ShrinklerMemory`.

What is claimed for *every* bit stream therefore comes with the length of the longest
unary prefix up to which it holds, each being what the code does and no margin. With the sizes of the GBA:

| Claim | Holds | Because |
|---|---|---|
| `StackBalanced`, `OutputContiguous` | as long as the depacker runs | the index only selects what `getbit` accesses |
| `CopyCountPositive` | up to 30 ones | 31 bits behind the leading one fill the register; with one more it is lost, and zeros leave 0 |
| `NoAliasing` | up to 126 ones | an index from 256 on meets the bits of the group in `orr` |
| `ContextInTable` | up to 510 ones | index 1023 of the lengths' group ends 2 bytes above the table: the displacement by `getnumber`'s frame and the repeat flag is not quite undone |

A stream that the encoder writes has prefixes of at most 30 ones, for offsets and lengths
that fit in a register, so what the round trip shows has no such limit.

**ShrinklerEncoder** (external) is what the depacker presumes of libshrinkler: any
parse of any data into literals and references, as a sequence of bits that each name
a context. `symbols` is the parse itself, each symbol with where its bits and bytes
start; `BitsOf` says which bits encode it. **ShrinklerRoundTrip** feeds the depacker with
the stream. The two share no name of
a context. A bit arrives intact only while encoder contexts and stack halfwords have
paired off one to one; from the first mismatch on *any* bit may arrive, which is what a
range decoder with a wrong probability produces. That a bit arrives intact while they do
is what `RangeCoderRoundTrip` shows. `KeepsPromise` is
`Decompression!Spec` under the mapping that reads the unpacked bytes from the load
address on.

**ShrinklerMemory** adds to the depacker who wrote each address last: a push or
`getbit`'s `strh` (`ofStack`), or the `strb` of an unpacked byte. `StackBottom` is the
lowest address the stack reaches, `getbit` called from `getnumber`. No code checks that
the load area stays away from it; `LoadAreaClear` is the condition under which it does
not matter, up to a unary prefix that leaves the table behind (`Outrun`). The steps are
the depacker's, so nothing is claimed of what happens after the two have run into each
other.

**RangeDecoder** is `getbit` itself: normalisation bit by bit (`Readbit`, `Newword`),
threshold, adaptation, and the two branches, with every addition and multiplication cut to its
register's width and the carry flag where the code relies on it. The width is a
constant: `Half` is the bit of `isize` that the loop waits for (2^15), registers hold
`(2 * Half)^2` values. The two `mov`s that exist only to be stomped over by header
bytes leave every modelled register and C alone. **RangeCoderRoundTrip** adds an
encoder that narrows an interval of code words and then settles on *any* code word, of any
length: `Close` may leave out the last `rest` bits once all that can stand there lies in the
interval. The data is the code word, padded with zeros to a word, and ends there. The
decoder, which nothing tells so, goes on reading: `WordsAt` lets it find *any* word behind the
data. With a code word that ends at a word's end, the last bits are thus decoded from
a word that the encoder never wrote. `ReadsJustBehind` bounds how far that goes: words
from behind the data begin less than `InitialBits` bits behind it, which with words of
32 bits is one word at most. `coder` keeps all the states
of the encoder, one per bit: `ModelsAgree` compares the decoder's table with the
encoder's of the same bit, which it had long before. `DeliversBits` is
`BitChannel!Spec`.

**InputFile.** `CheckHeader` stands for the five header checks (one verdict) and the
selection of sections; `FirstSection`, `NextSection` and `Overlap` are the three ways
through the loop of `load_binary`; `EndOfLoop` is the size check of
`load_input_file`. Bytes are named for where they come from, so a wrong byte cannot
look right by chance. The sort leaves open which of two sections at one address comes
first. `previous` is `previous_section`, and `report` the two sections that the message
about an overlap names.

**HeaderChecksum.** `AddByte` is an iteration of `calculate_complement`'s loop, which
is run twice: by `write_complement`, leaving out the byte to be set, and by
`throw_if_complement_wrong`, leaving out the complement. `partial` is a history
variable: the sums of the first run, which the proof compares with the second's.

**CartridgeAssembler** emits the header of either packer, with and without code in it, as a
list of items: bytes of one role (field, code, literal, operand, ...) and the addresses
where `throw_if_wrong_lc` or `throw_if_not_aligned` want them. `Emit` places the next
item or throws; `Checksum` is `HeaderChecksum` on the result, with
`throw_if_fixed_byte_wrong` between its two halves. The number of half words
of each stretch of code is read off the source; whether lzasm shares equal literals of
the pool is left open. What lies behind the header is emitted too, as far as it
decides where `packed_intro` is aligned, for the LZSS packer whole.

**LzssDepacker** goes from `lzss_compress` to the jump to the intro. agbpack's encoder
(external) chooses any parse, or a wrong one, which the verification has to find
(`correct`). The Huffman code is not looked into: a stream that passed verification
decodes. `CodeStart` and `LzssDecode` are the two BIOS calls (external) with the
registers loaded for them; a call leaves anything in r0 and r1. LZ77UnComp then
alternates `ReadToken` and `CopyByte` over a RAM whose bytes know what they are, so that
a token that has been overwritten is noticed when it is read: from then on
(`derailed`) it may write anything. `KeepsPromise` is `Decompression!Spec`, given that
the load area is in RAM and that there is `RoomAbove` it. That room is *not* disjointness
of buffer and load area: the two may overlap, since a literal takes one byte and a
reference at least as many as it is long, flag bytes apart. So the intro, written upwards, cannot
catch up with the stream if `flags - 1 + padding` bytes are free above it.

**DebugChecks** is the option `--debug-checks`: `Adler32` is the packer's loop in
`utility.cpp`, `Adler32Loop` the emitted one. `Depack` leaves any bytes, any number of
them and any sp behind, because the checks exist for a depacker that is broken. An
empty intro never gets that far: `load_input_file` turns it down, so `Assemble` wants
one byte. `panic` halts.

**PackPipeline.** One action per operation of `main`, `pack` and `write_to_disk`. A
packer returns a cartridge of any size and last byte, or throws. `Write` fails,
or leaves the bytes in the stream's buffer, or hands them over; `Close` flushes what is
left, successfully or not. Paths of input and output may be the same.

## Runs

| Run | Question | Bounds | Why they are enough |
|---|---|---|---|
| `depacker` | Do stack, table, output pointer and copy count survive every bit stream? | bytes of 2 bits, 32 contexts, registers of 4 bits, 2 output bytes; prefixes of any length | every label, both call depths, both parities and both kinds of reference occur; prefixes outgrow register, group and table; frame sizes are the real ones |
| `round_trip` | Does the depacker rebuild what the encoder took apart, and stop there? | real byte, table and stack sizes, an odd load address, all streams of up to 4 symbols, offsets and lengths up to 20; registers of 30 bits, since TLC's integers have 32 | literal/reference in every order, repeated and fresh offsets, overlapping copies, several prefix lengths |
| `range_decoder` | Does `getbit` stay in range and return, for every input? | 4-bit probabilities, 8-bit registers, 3-bit words, 2 contexts | all reachable states, no bound on the length of the input |
| `range_round_trip` | Do the encoder's bits come out, wherever the code word ends and whatever lies behind it? | messages of up to 5 bits, 2 contexts, words of 3 bits, as many as `InitialBits` | code words span several words, so refills fall on every bit position; the shortest ones end with the last word, and a word from behind it is read |
| `input_file` | Is what is packed the memory image, and does a message about an overlap name one? | 3 sections, addresses 0..4, sizes 0..2 | adjacent, overlapping, equal and distant sections in every table order; sections are symmetric |
| `header` | Does the header fit its layout, and is every arranged checksum accepted and harmless? | the real header; each stretch of code and each literal has one of 4 byte values | all four combinations of packer and option; sums wrap around; the byte to be set lies before, at and behind each other case's |
| `shrinkler_memory` | How close may load area and stack come? | 32 contexts, frames of their real sizes, 3 output bytes right below the deepest frame | the load area ends at the lowest address the stack may touch: one byte more and the condition fails |
| `lzss` | Is the LZSS stream intact while it is read, and the intro right? | intros of up to 7 bytes, 2 tokens per flag byte, references of 3 and 4 bytes, 16 bytes of EWRAM | load areas below, inside and up to the end of the buffer, outside RAM, and in IWRAM; streams of four groups; every parse, also faulty ones |
| `lzss_readme` | Is it enough that the intro is in RAM? | as `lzss`, 4 bytes | expected to fail, see below |
| `debug_checks` | Do the checks fire only with a fault, and with every fault they are for? | base 5, half words of 3 bits, bytes 0, 1 and 4, intros of up to 4 bytes | sums pass the base at every step; every damaged intro of these sizes |
| `pipeline` | Which ROM is written, and what is left behind after a failure? | 2 packers, 3 sizes, up to 3 `--packer` options | padding makes sizes equal and inverts their order |
| `pipeline_readme` | Does a successful exit mean the ROM was written? | as `pipeline` | expected to fail, see below |

All runs but those of `getbit` and of the round trips, which never stop, allow deadlock:
the bounds cut a stream off, or the program ends or hands over to the intro. A stream that does not
fit into EWRAM at all needs more bytes than `lzss` has; that case rests on the proof.

`ShrinklerMemory` and `LzssDepacker` state conditions that no code checks. Both are
the answer to a question that `TODO.md` leaves open, and could be turned into the checks
it asks for: `LoadAddress + size <= InitialSp - 4096 - 24` for the Shrinkler packer,
`RoomAbove` for the LZSS packer.

### Findings

`pack.cpp:202`: `write_to_disk` checks the stream after `open` and after `write`, but
not after `close`. A ROM smaller than the stream's buffer, which a 4k intro is, is
handed to the operating system only there. When that fails the program still exits
with `EXIT_SUCCESS` and leaves an empty or cut file, against README.md:34, "The ROM
will be written to `intro.gba`". `pipeline_readme` shows it.

`lzss_packer.cpp:170`: the stream goes to the end of EWRAM "in the hope this is where it
least interferes with the program". README.md:19 asks only for a load address in IWRAM
or EWRAM, and TODO.md:50 grants an intro in EWRAM all of its 256K. `lzss_readme` shows an intro
that ends with EWRAM, whose last bytes run over the token they are made of; it is started
damaged. TODO.md:55 lists the missing check. By the condition that is proved, it takes
an intro that comes within `flags - 1 + padding` bytes of the end of EWRAM.

A related behaviour of `write_to_disk` contradicts no document and is only modelled: when opening the output file
fails, `remove_output_file` is called all the same, and deletes a file that was
there before and that could not be written.

## Fairness

`ShrinklerRoundTrip` and `RangeCoderRoundTrip` assume weak fairness of the depacker's
steps, `RangeDecoder` of a call of `getbit` that has begun: the CPU executes nothing
else, interrupts are off after reset, and each instruction ends. `LzssDepacker` assumes it of the code in the
cartridge and of the BIOS calls it makes (`WF(Boot)`), for the same reason. Nothing is assumed of the encoder, which
may take as long as it likes, nor of `getbit`'s callers. `DebugChecks` and `PackPipeline` state no
fairness: their questions are about what is done, not whether it is.

## Proofs

Seven modules of theorems, and one of lemmas on numbers; `tlapm` checks every leaf. Each
theorem holds for all values of the constants that the `ASSUME`s of its module
allow, and follows from an inductive invariant:

* **ShrinklerProofs**, the depacker - for any byte size, any table with more than five groups,
  any load address and any stack. The invariant ties `frames`, `sp`, `outp` and
  `tmp0` to the label: inside `getnumber` there is one frame, holding the `outp` that
  the bytes stored so far end at, and `tmp0` is the group that the call asked for. The address of a
  context then is its `Slot`, and slots are disjoint because group 2 is left out, as long as the
  index is one of the group's. `ones` counts the prefix, so that `outp` and the range of `tmp1` are
  known of it; where a longer prefix leads is a matter of which bits `orr` sets.
  `NoAliasing` is the claim of the comment at `shrinkler_packer.cpp` 43-49,
  `StackBalanced` that of README.md:44 (all registers but SP). The table of 2048
  contexts is more than the proof needs: 5 * 256 + 1, in line with the
  comment that 1536 would do.
* **ShrinklerProofs**, stack and intro in one memory - for any table, stack and intro. The unpacked
  bytes stay in the load area and the stack above `StackBottom`, which the frames on the stack by
  label give; once the init loop is done, the whole table was last written by the stack's owner.
* **ShrinklerProofs**, the round trip - for any intro, any parse and any number of bits per
  byte. `RInv` has three parts. `EncoderInv`: the stream is the bits of the symbols, one after
  the other, and the data their bytes. `DepackInv`: at every label the depacker stands inside one
  of the symbols, `Placed`, with `received` pointing at the bit that this label reads, and
  its registers holding what has been read of the symbol: the leading bits of the byte, the number
  so far, the bytes still to be copied, the last offset. `Paired`: all pairs met so far are
  those of *one* map from the encoder's contexts to the depacker's, which is
  one to one because slots are disjoint and because the parity of the output address is that of the
  position in the data, up to the parity of the load address, which is the same for all.
  So a bit always arrives intact, which keeps the depacker on the symbol. The numbers need
  powers of two and quotients: the bit `numberloop` appends is the next bit of the number's
  expansion, and the expansion determines the number.
  `ContextAgreement`, `CopySafety` and `StreamUse` follow, and `PromiseKeptSafely`: every step
  of the round trip is a step of `Decompression` or a stutter.
* **RangeDecoderProofs**, `getbit` alone - for any register width and any `ADJUST_SHIFT` from 2 up. The
  invariant adds bounds on the probabilities that adaptation keeps: they
  stay in `(AdjustDiv - 1)..(ProbOne - 1)` (below `AdjustDiv` one no longer decays, and
  none ever reaches `ProbOne`), so that a threshold is never 0 and never the whole
  interval.
* **RangeDecoderProofs**, the round trip - for any message, any code word, any size of a word and any
  power of two as `Half`. `CoderInv`: each of the encoder's intervals, doubled as often as was done since,
  contains all that come after it (`Nested`). When the encoder is done there is therefore a
  number `p`, which begins with the code word and its padding, that lies in every
  one of these intervals whatever it ends with (`Spells`). `Follows` is what the decoder does with it: there are `m`,
  `base`, `u` and `unread` such that the first `inp` words spell
  `(rvalue + base) * 2^u + unread`, `isize` and `base` are the encoder's interval after as many
  bits, `m` doublings short, and `unread` is the `u` bits above the buffer's sentinel. Each
  bit that moves in is one of the doublings that are missing, so that a normalised `getbit` is in
  exactly the encoder's interval (`NormalisedExact`), its value in the part of it that the encoded
  bit took (`InNextPart`), and the comparison with the threshold yields that bit
  (`BitDecided`). The number `p` is not fixed when the encoder is done: the words spell a prefix
  of it, all of whose continuations lie in the intervals (`Spells`), and each word found behind
  the data continues it (`AnythingFollows`). `m > 0` whenever a bit is wanted, and the
  doublings are no more than the bits of the code word, written or not: hence no word is
  read that begins `InitialBits` behind the data (`NeverReadsFarBehind`).
  `DeliversSafely` is the safety part of the refinement of `BitChannel`.
* **CartridgeProofs**, the checksum - for any header. The second loop's sum equals the first's
  plus the byte that was set minus the complement, once each has been passed (`CInv`, for which
  `partial` keeps the sums of the first loop); the sum over the area that the BIOS wants is a
  recursive function of the index that the loop's sums are congruent to.
* **CartridgeProofs**, the assembler - for whatever values instructions, literals and
  operands have, in the four layouts of the source, with their real sizes. `LayoutInv` says that the
  items that are left can all be placed where their checks want them from the
  location counter on (`Runs`), ending behind the header and word aligned, and that what has been
  emitted leaves the fixed byte right and the variable byte to nothing that matters. So no
  check throws (`AssemblyNeverThrows`), the patch is harmless (`PatchSafety`), and the
  checksum's theorems carry over to the headers that are really made (`AssembledRomBoots`).
* **LzssDepackerProofs** - for any memory map, parse, size of a group and lengths from 2 up. `RoomInv` is the
  heart: from every token on, the stream is at most as long as what is still to be
  written, plus the flag bytes (but the first, once it has been read). With `RoomAbove`, the write
  position thus stays below what is unread, and the registers keep agreeing on a token.
  `LzssKeepsPromise` proves the safety part of the refinement: every step is
  one of `Decompression`'s, or a stutter. What flag bytes cost and where padding goes is
  in the invariant, so it covers streams that overlap the load area.
* **DebugChecksProofs** - for any base and any bytes below it. The invariant follows both
  sums alongside the packer's: equal while the bytes agree, off by a difference that the base
  cannot hide once one byte is wrong or two neighbours are swapped.
* **InputFileProofs** - for any set of sections. The invariant says that the image
  built so far covers exactly the visited sections, which share no address and all end at or
  before the output address, the remembered one right at it: a section that starts below
  it therefore overlaps with the remembered one, too.
* **PackPipelineProofs** - for any registry. What the packers run so far returned,
  together with those still to run, is what the options parsed ask for; what the loop collects is
  padded already.

`Numbers` provides what these need of the natural numbers. The library's induction
theorems take a predicate as parameter, which the provers cannot instantiate; with
a *set* in its place (`SetInduction`, from `LeastMember`, which follows from
the library's theorem that strict inclusion of finite sets is well-founded) induction over naturals is
available, and from it that functions defined by recursion exist (`PrimitiveRecursion`), which gives
`Pow2` its values.

Every invariant that a run checks is stated by a theorem. The runs check them once more on small
instances, where TLC can also show that mutants of the code break them. Only
model-checked: liveness, that is `GetbitReturns` and the fairness half of the refinements
`ShrinklerRoundTrip!KeepsPromise`, `LzssDepacker!KeepsPromise` and `DeliversBits`. The provers
have no rule for `WF` and `ENABLED`. Their safety halves are proved.

## Not modelled

* Console, table printer and ELF info format verbose output; no other part reads what
  they produce. `elf_info.cpp` and `input_file.cpp` share `is_section_included`, which is
  in `InputFile`. `shrinkler_gba.cppm` only re-exports.
* argpppp, ELFIO, lzasm, libshrinkler, agbpack and the BIOS are external. Of the command
  line, `--packer` and the output path are modelled; every other option sets one value
  within limits that argpppp checks.
* The panic routine draws a picture and halts; that it halts is all the model keeps.
* The layout of a Shrinkler cartridge behind its header, and of one with debug checks:
  there are no location counter checks there, only alignments, and
  which literals lzasm places in which pool is not in the repository.
* `ShrinklerMemory` says nothing of what an intro does that overlaps the stack: the
  depacker's later behaviour depends on the bytes of intro and code, and neither
  README.md nor TODO.md promises anything for it.
* A file with sections in EWRAM and in IWRAM is padded with almost 16 MB of zeros
  (`input_file.cpp:163`); what the hardware does with the addresses in between is
  not in the repository.

What could be proved next: that `ShrinklerRoundTrip` and `RangeCoderRoundTrip` fit together, as
one module in which the depacker's `getbit` is `RangeDecoder`. Each of the two is proved with
the other's promise in its place: the depacker, that bits come out as encoded while contexts
agree; the range coder, that the decoder is asked for the contexts that were
encoded.
