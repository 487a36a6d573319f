------------------------------- MODULE InputFile -------------------------------
(***************************************************************************)
(* load_input_file in pack.cpp, and the input_file it constructs: from the *)
(* section table of an ELF file to the bytes that will be packed.  A byte  *)
(* is named for where it comes from: byte i of section s is <<s, i>>.      *)
(***************************************************************************)
EXTENDS Integers, Sequences

CONSTANTS
  Sections,   \* the sections of the file
  Types,      \* section types that occur
  Addresses,  \* section addresses that occur
  Sizes,      \* section sizes that occur
  Zero,       \* a padding byte
  None        \* no section

ASSUME InputAssumption ==
  /\ Addresses \subseteq Nat
  /\ Sizes \subseteq Nat
  /\ Zero \notin Sections \X Nat
  /\ None \notin Sections

VARIABLES
  table,          \* the ELF file: the header of every section
  headerValid,    \* the ELF file: what check_header finds
  status,         \* "check_header", "load_binary", "loaded" or "rejected"
  todo,           \* included sections that the loop has not reached
  data,           \* m_data
  loadAddress,    \* m_load_address
  outputAddress,  \* output_address
  previous,       \* previous_section
  report          \* the two sections that the exception names, if it names any

inputVars == <<table, headerValid, status, todo, data, loadAddress, outputAddress,
               previous, report>>

SectionHeader == [type : Types, address : Addresses, size : Sizes, alloc : BOOLEAN]

\* is_section_included
Included(s) ==
  /\ table[s].type \notin {"null", "nobits"}
  /\ table[s].address # 0
  /\ table[s].size # 0
  /\ table[s].alloc

End(s) == table[s].address + table[s].size

-----------------------------------------------------------------------------
Init ==
  /\ table \in [Sections -> SectionHeader]
  /\ headerValid \in BOOLEAN
  /\ status = "check_header"
  /\ todo = {}
  /\ data = << >>
  /\ loadAddress = 0
  /\ outputAddress = 0
  /\ previous = None
  /\ report = << >>

\* check_header throws, or the included sections are collected.
CheckHeader ==
  /\ status = "check_header"
  /\ IF headerValid
       THEN status' = "load_binary" /\ todo' = {s \in Sections : Included(s)}
       ELSE status' = "rejected" /\ UNCHANGED todo
  /\ UNCHANGED <<table, headerValid, data, loadAddress, outputAddress, previous, report>>

\* Mutant: the order of the section table is left as it is.
IsNextUnsorted(s) == s \in todo

\* The loop visits the sections by address; the sort leaves open which of
\* two sections at the same address comes first.
IsNext(s) ==
  /\ s \in todo
  /\ \A t \in todo : table[s].address <= table[t].address

\* Mutant: the bytes are taken from one before the section's first.
FirstSectionOffByOne(s) ==
  /\ status = "load_binary" /\ IsNext(s)
  /\ data = << >>
  /\ loadAddress' = table[s].address
  /\ data' = [k \in 1..table[s].size |-> <<s, k - 2>>]
  /\ outputAddress' = End(s)
  /\ todo' = todo \ {s}
  /\ previous' = s
  /\ UNCHANGED <<table, headerValid, status, report>>

\* The first section settles the load address.
FirstSection(s) ==
  /\ status = "load_binary" /\ IsNext(s)
  /\ data = << >>
  /\ loadAddress' = table[s].address
  /\ data' = [k \in 1..table[s].size |-> <<s, k - 1>>]
  /\ outputAddress' = End(s)
  /\ todo' = todo \ {s}
  /\ previous' = s
  /\ UNCHANGED <<table, headerValid, status, report>>

\* Mutant: a hole is not filled.
NextSectionNoPadding(s) ==
  /\ status = "load_binary" /\ IsNext(s)
  /\ data # << >>
  /\ table[s].address >= outputAddress
  /\ data' = [k \in 1..(Len(data) + table[s].size) |->
                IF k <= Len(data) THEN data[k] ELSE <<s, k - Len(data) - 1>>]
  /\ outputAddress' = End(s)
  /\ todo' = todo \ {s}
  /\ previous' = s
  /\ UNCHANGED <<table, headerValid, status, loadAddress, report>>

\* Mutant: only the first section is remembered.
NextSectionNotRemembered(s) ==
  /\ status = "load_binary" /\ IsNext(s)
  /\ data # << >>
  /\ table[s].address >= outputAddress
  /\ LET start == Len(data) + (table[s].address - outputAddress)
     IN  data' = [k \in 1..(start + table[s].size) |->
                    IF k <= Len(data) THEN data[k]
                    ELSE IF k <= start THEN Zero
                    ELSE <<s, k - start - 1>>]
  /\ outputAddress' = End(s)
  /\ todo' = todo \ {s}
  /\ UNCHANGED <<table, headerValid, status, loadAddress, previous, report>>

\* A later one is appended behind zeros that fill the hole before it.
NextSection(s) ==
  /\ status = "load_binary" /\ IsNext(s)
  /\ data # << >>
  /\ table[s].address >= outputAddress
  /\ LET start == Len(data) + (table[s].address - outputAddress)
     IN  data' = [k \in 1..(start + table[s].size) |->
                    IF k <= Len(data) THEN data[k]
                    ELSE IF k <= start THEN Zero
                    ELSE <<s, k - start - 1>>]
  /\ outputAddress' = End(s)
  /\ todo' = todo \ {s}
  /\ previous' = s
  /\ UNCHANGED <<table, headerValid, status, loadAddress, report>>

\* "Section {} overlaps with previous section {}"
Overlap(s) ==
  /\ status = "load_binary" /\ IsNext(s)
  /\ data # << >>
  /\ table[s].address < outputAddress
  /\ status' = "rejected"
  /\ report' = <<s, previous>>
  /\ UNCHANGED <<table, headerValid, todo, data, loadAddress, outputAddress, previous>>

\* load_input_file rejects a file without data.
EndOfLoop ==
  /\ status = "load_binary" /\ todo = {}
  /\ status' = IF data = << >> THEN "rejected" ELSE "loaded"
  /\ UNCHANGED <<table, headerValid, todo, data, loadAddress, outputAddress, previous, report>>

Next ==
  \/ CheckHeader
  \/ \E s \in Sections : FirstSection(s) \/ NextSection(s) \/ Overlap(s)
  \/ EndOfLoop

Spec == Init /\ [][Next]_inputVars

-----------------------------------------------------------------------------
\* Type invariant.
TypeOK ==
  /\ table \in [Sections -> SectionHeader]
  /\ headerValid \in BOOLEAN
  /\ status \in {"check_header", "load_binary", "loaded", "rejected"}
  /\ todo \subseteq Sections
  /\ data \in Seq((Sections \X Nat) \cup {Zero})
  /\ loadAddress \in Nat
  /\ outputAddress \in Nat
  /\ previous \in Sections \cup {None}
  /\ report \in {<< >>} \cup (Sections \X (Sections \cup {None}))

\* What will be packed is the memory image that the ELF file describes, in
\* whatever order its sections come: every byte of an included section at its
\* address, zero at every other address, from the first section's start to the
\* last one's end.  (So no two sections of a loaded file can overlap.)
ImageFaithful ==
  status = "loaded" =>
    /\ \A s \in Sections : Included(s) =>
         /\ loadAddress <= table[s].address
         /\ End(s) <= loadAddress + Len(data)
         /\ \A i \in 0..(table[s].size - 1) :
              data[table[s].address - loadAddress + i + 1] = <<s, i>>
    /\ \A k \in 1..Len(data) :
         \/ data[k] = Zero
         \/ \E s \in Sections : Included(s) /\ table[s].address < loadAddress + k
                                            /\ loadAddress + k <= End(s)
    /\ \E s \in Sections : Included(s) /\ table[s].address = loadAddress
    /\ \E s \in Sections : Included(s) /\ End(s) = loadAddress + Len(data)

\* A file is turned down only for a reason: an invalid header, nothing to
\* load, or two included sections that do share an address.
RejectedForCause ==
  status = "rejected" =>
    \/ ~headerValid
    \/ \A s \in Sections : ~Included(s)
    \/ \E s, t \in Sections :
         /\ s # t /\ Included(s) /\ Included(t)
         /\ table[s].address <= table[t].address /\ table[t].address < End(s)

Disjoint(s, t) == End(s) <= table[t].address \/ End(t) <= table[s].address

\* When sections overlap, the exception names the first one that does and a
\* section before it that it really shares an address with.
OverlapNamed ==
  /\ status = "rejected" /\ headerValid /\ (\E s \in Sections : Included(s)) =>
       report # << >>
  /\ report # << >> =>
       LET s == report[1]
           p == report[2]
       IN  /\ p \in Sections \ {s} /\ Included(s) /\ Included(p)
           /\ table[p].address <= table[s].address /\ table[s].address < End(p)
           /\ \A t, u \in Sections :
                /\ t # u /\ Included(t) /\ Included(u)
                /\ table[t].address < table[s].address
                /\ table[u].address < table[s].address
                => Disjoint(t, u)
=============================================================================
