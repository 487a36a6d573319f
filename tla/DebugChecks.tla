------------------------------ MODULE DebugChecks ------------------------------
(***************************************************************************)
(* Option --debug-checks: between depacker and intro the cartridge checks  *)
(* the number of unpacked bytes, their adler32 checksum and the stack      *)
(* pointer.  The packer computes the checksum with a remainder, the Thumb  *)
(* code with a conditional subtraction in a loop that runs at least once.  *)
(* What the depacker leaves behind is arbitrary here: the checks are for   *)
(* the case that it is broken.                                             *)
(***************************************************************************)
EXTENDS Integers, Sequences

CONSTANTS
  Base,       \* 65521
  Half,       \* values of a half word (2^16)
  Bytes,
  InitialSp,
  Sps,        \* values that sp may have after depacking
  MaxData     \* bound: bytes of the intro

Sums == [s1 : 0..(Base - 1), s2 : 0..(Base - 1)]

ASSUME DebugAssumption ==
  /\ Base \in Nat /\ Half \in Nat
  /\ 2 <= Base /\ Base <= Half
  /\ Bytes \subseteq 0..(Base - 1)
  /\ MaxData \in Nat
  /\ MaxData < Half * Half  \* its size is narrowed to an int32_t

VARIABLES
  pc,
  data,      \* input_file.data()
  host,      \* adler32: its sums before each byte of data, and after the last
  mem,       \* the bytes from the load address on, as many as data has
  depacked,  \* outp - load_address: number of bytes that the depacker wrote
  sp,
  s1, s2,
  index,     \* decompressed_data - load_address
  counter    \* loop_counter

outside == <<data, host, mem, depacked, sp>>
registers == <<s1, s2, index, counter>>
debugVars == <<pc, outside, registers>>

Labels == {"adler32", "depack", "size", "data", "adler32_loop", "checksum",
           "sp", "intro", "panic"}

-----------------------------------------------------------------------------
Init ==
  /\ pc = "adler32"
  /\ data = << >> /\ host = <<[s1 |-> 1, s2 |-> 0]>>
  /\ mem = << >> /\ depacked = 0 /\ sp = InitialSp
  /\ s1 = 0 /\ s2 = 0 /\ index = 0 /\ counter = 0

\* The packer's adler32 takes in another byte of the intro.
Adler32(byte) ==
  /\ pc = "adler32" /\ Len(data) < MaxData
  /\ data' = Append(data, byte)
  /\ LET sums == host[Len(host)]
         sum1 == (sums.s1 + byte) % Base
     IN  host' = Append(host, [s1 |-> sum1, s2 |-> (sums.s2 + sum1) % Base])
  /\ UNCHANGED <<pc, mem, depacked, sp, registers>>

\* load_input_file has turned down an intro that is empty.
Assemble ==
  /\ pc = "adler32" /\ data # << >>
  /\ pc' = "depack"
  /\ UNCHANGED <<outside, registers>>

\* The depacker, in whichever way it fails, has started with a literal.
Depack ==
  /\ pc = "depack"
  /\ mem' \in [1..Len(data) -> Bytes]
  /\ depacked' \in 1..(MaxData + 1)
  /\ sp' \in Sps
  /\ pc' = "size"
  /\ UNCHANGED <<data, host, registers>>

-----------------------------------------------------------------------------
\* debug_check_decompressed_data_size
CheckSize ==
  /\ pc = "size"
  /\ pc' = IF depacked = Len(data) THEN "data" ELSE "panic"
  /\ UNCHANGED <<outside, registers>>

\* debug_check_decompressed_data, up to its loop
StartLoop ==
  /\ pc = "data"
  /\ s1' = 1 /\ s2' = 0
  /\ index' = 0
  /\ counter' = Len(data)
  /\ pc' = "adler32_loop"
  /\ UNCHANGED outside

\* Mutant: bls in place of blo.
ReduceLate(sum) == IF sum <= Base THEN sum ELSE sum - Base

\* cmp; blo; sub
Reduce(sum) == IF sum < Base THEN sum ELSE sum - Base

\* An iteration of adler32_loop.  The counter is a word.
Adler32Loop ==
  /\ pc = "adler32_loop"
  /\ \E byte \in IF index < Len(mem) THEN {mem[index + 1]} ELSE Bytes :
       s1' = Reduce(s1 + byte)
  /\ s2' = Reduce(s2 + s1')
  /\ index' = index + 1
  /\ counter' = (counter - 1) % (Half * Half)
  /\ pc' = IF counter' = 0 THEN "checksum" ELSE pc
  /\ UNCHANGED outside

\* lsl; orr of the two sums.  They have no bit in common, see DebugTypeOK.
Combine(sum1, sum2) == ((sum2 * Half) % (Half * Half)) + sum1

\* Mutant: only the first sum is compared.
CheckFirstSum ==
  /\ pc = "checksum"
  /\ pc' = IF s1 = host[Len(host)].s1 THEN "sp" ELSE "panic"
  /\ UNCHANGED <<outside, registers>>

\* debug_check_decompressed_data, from its loop on
CheckData ==
  /\ pc = "checksum"
  /\ LET sums == host[Len(host)]
     IN  pc' = IF Combine(s1, s2) = Combine(sums.s1, sums.s2) THEN "sp" ELSE "panic"
  /\ UNCHANGED <<outside, registers>>

\* debug_check_sp_on_exit, and the branch to the intro
CheckSp ==
  /\ pc = "sp"
  /\ pc' = IF sp = InitialSp THEN "intro" ELSE "panic"
  /\ UNCHANGED <<outside, registers>>

Next ==
  \/ \E byte \in Bytes : Adler32(byte)
  \/ Assemble
  \/ Depack
  \/ CheckSize
  \/ StartLoop
  \/ Adler32Loop
  \/ CheckData
  \/ CheckSp

Spec == Init /\ [][Next]_debugVars

-----------------------------------------------------------------------------
\* Type invariant.  The sums of both sides are less than the base between two
\* bytes, so that they fit a half word each.
DebugTypeOK ==
  /\ pc \in Labels
  /\ data \in Seq(Bytes) /\ mem \in Seq(Bytes)
  /\ host \in Seq(Sums)
  /\ depacked \in Nat
  /\ s1 \in 0..(Base - 1) /\ s2 \in 0..(Base - 1)
  /\ index \in Nat /\ counter \in Nat

\* The depacker did its work.
Faultless == depacked = Len(data) /\ mem = data /\ sp = InitialSp

\* The checks panic only if there is a fault: the conditional subtractions
\* of the loop compute what the remainders of the packer do.
NoFalseAlarm == pc = "panic" => ~Faultless

\* Byte number i is the only one that is wrong.
WrongByte(i) ==
  /\ mem[i] # data[i]
  /\ \A j \in 1..Len(data) : j # i => mem[j] = data[j]

\* Byte number i and the next one have changed places, and nothing else.
SwappedBytes(i) ==
  /\ data[i] # data[i + 1]
  /\ mem[i] = data[i + 1] /\ mem[i + 1] = data[i]
  /\ \A j \in 1..Len(data) : j \notin {i, i + 1} => mem[j] = data[j]

\* The intro is not started with a wrong stack pointer, a wrong number of
\* bytes, one byte wrong or two neighbours swapped.
DamageCaught ==
  pc = "intro" =>
    /\ sp = InitialSp /\ depacked = Len(data)
    /\ \A i \in 1..Len(data) : ~WrongByte(i)
    /\ \A i \in 1..(Len(data) - 1) : ~SwappedBytes(i)
=============================================================================
