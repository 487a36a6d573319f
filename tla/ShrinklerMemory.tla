---------------------------- MODULE ShrinklerMemory ----------------------------
(***************************************************************************)
(* The depacker's stack and the bytes it unpacks in one memory.  The       *)
(* context table and the frames pushed below it are at the top of IWRAM,   *)
(* the intro is unpacked upwards from its load address, and no code checks *)
(* that the two stay apart.                                                *)
(***************************************************************************)
EXTENDS ShrinklerDepacker

VARIABLE
  ofStack  \* addresses that a push or getbit's strh was the last to write

memoryVars == <<vars, ofStack>>

\* Lowest address that the depacker's stack reaches: getbit in getnumber.
StackBottom == TableBase - GetnumberFrame - GetbitFrame

ASSUME MemoryAssumption == StackBottom \in Nat

\* The load area, which the MaxOutput bytes of the intro fill, is clear of it.
LoadAreaClear ==
  \/ LoadAddress + MaxOutput <= StackBottom
  \/ InitialSp <= LoadAddress

\* What strb writes in a step.
Stored == DOMAIN mem' \ DOMAIN mem

MemoryInit == Init /\ ofStack = {}

\* getbit pushes its frame and stores the probability; a strb comes later.
MemoryBit(b) ==
  /\ BitStep(b)
  /\ ofStack' = (ofStack \cup (sp - GetbitFrame)..(sp - 1)
                         \cup {access'.address, access'.address + 1}) \ Stored

\* The init loop and the calls of getnumber push what lies above the new sp.
MemoryOther ==
  /\ OtherStep
  /\ ofStack' = (ofStack \cup sp'..(sp - 1)) \ Stored

MemoryNext == MemoryOther \/ \E b \in Bit : MemoryBit(b)

MemorySpec == MemoryInit /\ [][MemoryNext]_memoryVars

-----------------------------------------------------------------------------
\* Type invariant of what this module adds.
MemoryTypeOK == TypeOK /\ ofStack \subseteq Int

\* A unary prefix that was too long has led getbit out of the table: what
\* ContextInTable allows for.
Outrun == Astray /\ 4 * ones + 4 >= NumContexts

\* With a load area that is clear of the stack, however deep its calls nest,
\* no push and no probability ever overwrites a byte that has been unpacked,
\* unless a unary prefix is too long for the table.
IntroIntact == LoadAreaClear /\ ~Outrun => ofStack \cap DOMAIN mem = {}

\* Under the same conditions the probability that getbit reads was last written
\* by the init loop or by getbit: neither by an unpacked byte nor not at all.
ReadsProbability ==
  [][\A b \in Bit : MemoryBit(b) /\ LoadAreaClear /\ ~Outrun' =>
       {access'.address, access'.address + 1} \subseteq ofStack]_memoryVars
=============================================================================
