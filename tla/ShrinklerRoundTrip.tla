-------------------------- MODULE ShrinklerRoundTrip --------------------------
(***************************************************************************)
(* The depacker fed what the encoder produced.  The two share no names of  *)
(* contexts: the encoder numbers them, the depacker addresses halfwords of *)
(* its stack.  The range coder adapts a probability per context on either  *)
(* side, so a bit arrives intact only while the two pair off one to one;   *)
(* from the first mismatch on any bit may arrive.                          *)
(***************************************************************************)
EXTENDS ShrinklerDepacker, ShrinklerEncoder

VARIABLES
  received,  \* number of bits the depacker has decoded
  pairs      \* <<encoder's context, address>> of every bit decoded

roundTripVars == <<vars, encoderVars, received, pairs>>

\* Either side has the same bytes, a number of the encoder's fits in a register,
\* and a number of as many bits as a register does not outgrow its group.
ASSUME RoundTripAssumption ==
  /\ ByteSize = Pow2[ByteBits]
  /\ MaxData \in Nat
  /\ MaxData + 2 < RegisterSize
  /\ 2 * RegisterBits <= GroupSize

OneToOne(relation) ==
  \A p, q \in relation : p[1] = q[1] <=> p[2] = q[2]

RoundTripInit == Init /\ EncoderInit /\ received = 0 /\ pairs = {}

Encode ==
  /\ EncoderNext
  /\ UNCHANGED <<vars, received, pairs>>

\* A bit step of the depacker, and the bit that the range decoder delivers.
DecodeBit(b) ==
  /\ BitStep(b)
  /\ received' = received + 1
  /\ IF received < Len(stream)
       THEN LET item == stream[received + 1]
            IN  /\ pairs' = pairs \cup {<<item.context, access'.address>>}
                /\ OneToOne(pairs') => b = item.bit
       ELSE pairs' = pairs
  /\ UNCHANGED encoderVars

Depack ==
  /\ complete
  /\ \/ OtherStep /\ UNCHANGED <<encoderVars, received, pairs>>
     \/ \E b \in Bit : DecodeBit(b)

\* The intro has taken over.
IntroRuns == pc = "intro" /\ UNCHANGED roundTripVars

RoundTripNext == Encode \/ Depack \/ IntroRuns

\* Nothing else runs on the machine: the CPU goes on executing the depacker.
RoundTripSpec ==
  /\ RoundTripInit
  /\ [][RoundTripNext]_roundTripVars
  /\ WF_roundTripVars(Depack)

-----------------------------------------------------------------------------
\* Type invariant of what the composition adds.
RoundTripTypeOK ==
  /\ TypeOK
  /\ data \in Seq(Byte)
  /\ \A n \in 1..Len(stream) : stream[n].bit \in Bit
  /\ received \in Nat
  /\ \A p \in pairs : p[2] \in Int

\* Encoder and depacker pair contexts off one to one, also for an odd load
\* address, where every parity is the other way round: each adaptive
\* probability is trained by exactly the bits it was trained by on the PC.
ContextsAgree == OneToOne(pairs)

\* A reference copies only bytes that the depacker has stored before: neither
\* memory below the load address nor what is still to come, and never by an
\* offset left over in r8 from before the depacker started.
CopyReadsWritten ==
  pc = "copyloop" => LoadAddress <= Wrap(outp + tmp0) /\ Wrap(outp + tmp0) < outp

\* The depacker leaves having read the whole stream, and no bit more.
StreamConsumed ==
  /\ received <= Len(stream)
  /\ pc \in {"donedecompressing", "intro"} => received = Len(stream)

\* The stored bytes, from the load address on.
Unpacked == [i \in 1..Cardinality(DOMAIN mem) |-> mem[LoadAddress + i - 1]]

Promise ==
  INSTANCE Decompression WITH
    status <- IF ~complete THEN "packing" ELSE IF pc = "intro" THEN "running" ELSE "unpacking",
    original <- data,
    out <- Unpacked

\* The depacker keeps what Decompression promises: it stores the intro's bytes
\* in order, and starts the intro exactly when they are complete, eventually.
KeepsPromise == Promise!Spec
=============================================================================
